---- MODULE Spec2Model ----
(***************************************************************************)
(* A model of cutr, the cut-like field extractor of this repository        *)
(* (src/cutr/src/main.rs, src/cutr/src/field_spec.rs).                     *)
(*                                                                         *)
(* A Rust String is a sequence of one-character strings; a usize is a      *)
(* natural number below UsizeModulus.  Two specifications are given:       *)
(*   SpecIndices  one call of FieldSpec::indices on a bounded input;       *)
(*   Spec         one run of main, a line of input per step.               *)
(*                                                                         *)
(* and of the tokenize crate the tok tool is built on (src/tokenize/src):  *)
(*   SpecTokenizer      tokenizer_from_spec, then Tokenizer::tokens;       *)
(*   SpecRegexBoundary  RegexBoundaryTokenizer::tokens and ::words;        *)
(*                                                                         *)
(* and of three more tools:                                                *)
(*   SpecFargs          a run of cutr on one line, for -f of every shape;  *)
(*   SpecWordBoundary   WordBoundaryTokenizer::tokens and ::nom_tokens     *)
(*                      (src/nom_word_boundary/src/lib.rs);                *)
(*   SpecB64            b64_encode, then b64_decode (src/b64/src/main.rs); *)
(*   SpecCrc16          crc16_algo and crc16 (src/crc16/src/main.rs).      *)
(***************************************************************************)
EXTENDS Integers, Sequences, FiniteSets, TLC

VARIABLES
    overflow_checks,  \* the build: TRUE when arithmetic overflow panics (debug profile)
    fields,           \* the -f arguments, as given on the command line
    uniq,             \* -u
    sorted,           \* -s
    zero,             \* -z
    complement,       \* the command line asks for a complement, an option main does not define
    delim,            \* -d: <<>> for none (whitespace), otherwise <<c>>
    trim,             \* -t
    input,            \* the lines of FILE or of standard input
    pc,               \* where main is
    fargs,            \* main's fargs: the -f arguments after comma splitting
    lines,            \* main's lines
    file_header,      \* main's file_header
    n,                \* how many elements of fargs the parse loop has consumed
    field_enums,      \* main's field_enums
    i,                \* the line loop's i
    field_tokens,     \* the tokens of the line last processed
    indices,          \* the index list of the line last processed
    out,              \* the lines printed so far
    err,              \* "" or the kind of the error the run ended with
    tokenization_spec,\* the TokenizationSpec given to tokenizer_from_spec
    input_text,       \* the text given to the tokenizer
    tokenizer,        \* the Tokenizer built: its TokenizationConfig and its word tokenizer
    words,            \* what the word tokenizer's words returned
    typed_tokens,     \* what RegexBoundaryTokenizer::tokens returned
    tokens_out,       \* what Tokenizer::tokens returned
    nom_typed_tokens, \* what WordBoundaryTokenizer::nom_tokens returned
    b64_src,          \* b64: the 3 source bytes
    b64_n,            \* b64: how many of them are to be encoded
    b64_dst,          \* b64: the 4 Base64 bytes
    b64_out,          \* b64: the 3 bytes b64_decode writes to
    b64_ret,          \* b64: what b64_decode returned
    crc_msg,              \* crc16: the message
    crc_algo_ret,     \* crc16: the outcome of crc16_algo(crc_msg)
    crc_ret           \* crc16: the outcome of crc16(crc_msg)

cutr_vars == <<overflow_checks, complement, fields, uniq, sorted, zero, delim, trim, input,
               fargs, lines, file_header, n, field_enums, i, field_tokens, indices, out>>

tokenize_vars == <<tokenization_spec, input_text, tokenizer, words, typed_tokens, tokens_out>>

tools_vars == <<nom_typed_tokens, b64_src, b64_n, b64_dst, b64_out, b64_ret, crc_msg,
                crc_algo_ret, crc_ret>>

vars == <<cutr_vars, tokenize_vars, tools_vars, pc, err>>

----------------------------------------------------------------------------
(* Bounds of the model. *)

\* usize is as wide as a pointer of the target; the model takes a 16-bit target
UsizeBits == 16

\* the longest token list FieldSpec::indices is called on under SpecIndices
MaxTokens == 3

\* the largest position parameter of a FieldSpec under SpecIndices
MaxParam == 5

\* the most lines of input under Spec
MaxLines == 2

UsizeModulus == 2 ^ UsizeBits

----------------------------------------------------------------------------
(* Sequences. *)

RECURSIVE Flatten(_)
Flatten(ss) == IF ss = <<>> THEN <<>> ELSE Head(ss) \o Flatten(Tail(ss))

Reverse(s) == [j \in 1..Len(s) |-> s[Len(s) + 1 - j]]

\* enumerate().filter(): the positions, in increasing order, at which keep is TRUE
PositionsWhere(keep) ==
    LET RECURSIVE From(_)
        From(j) == IF j > Len(keep) THEN <<>>
                   ELSE (IF keep[j] THEN <<j>> ELSE <<>>) \o From(j + 1)
    IN From(1)

----------------------------------------------------------------------------
(* The regex crate, for the patterns the model uses: an optional leading ^, *)
(* literal characters and ".", an optional trailing $.  A pattern with an   *)
(* unclosed "(" does not compile.                                           *)

Regex_new_ok(pattern) ==
    Cardinality({j \in 1..Len(pattern) : pattern[j] = "("}) =
    Cardinality({j \in 1..Len(pattern) : pattern[j] = ")"})

is_match(re, txt) ==
    LET anchoredStart == Len(re) >= 1 /\ re[1] = "^"
        rest == IF anchoredStart THEN Tail(re) ELSE re
        anchoredEnd == Len(rest) >= 1 /\ rest[Len(rest)] = "$"
        body == IF anchoredEnd THEN SubSeq(rest, 1, Len(rest) - 1) ELSE rest
    IN \E o \in 0..(Len(txt) - Len(body)) :
          /\ anchoredStart => o = 0
          /\ anchoredEnd => o + Len(body) = Len(txt)
          /\ \A j \in 1..Len(body) : body[j] = "." \/ body[j] = txt[o + j]

----------------------------------------------------------------------------
(* FieldSpec. *)

Index(a) == [kind |-> "Index", a |-> a]
Last(a) == [kind |-> "Last", a |-> a]
OpenRange(a) == [kind |-> "OpenRange", a |-> a]
ClosedRange(a, b) == [kind |-> "ClosedRange", a |-> a, b |-> b]
RegularExpression(re) == [kind |-> "RegularExpression", re |-> re]

\* the result of a call: a value, or a panic
Returned(v) == [panicked |-> FALSE, val |-> v]
Panicked == [panicked |-> TRUE, val |-> <<>>]

\* RangeInclusive without the reversal of a decreasing range
RangeInclusive_never_reversed(start, end) ==
    IF start <= end THEN [j \in 1..(end - start + 1) |-> start + j - 1]
    ELSE [j \in 1..(start - end + 1) |-> end + j - 1]

\* start..=end, or (end..=start).rev()
RangeInclusive(start, end) ==
    IF start <= end THEN [j \in 1..(end - start + 1) |-> start + j - 1]
    ELSE [j \in 1..(start - end + 1) |-> start - j + 1]

\* indices_closure with the filter's upper bound left out
indices_closure_no_upper_bound(start, end, len) ==
    LET kept == SelectSeq(RangeInclusive(start, end), LAMBDA v : v > 0)
    IN [j \in 1..Len(kept) |-> kept[j] - 1]

\* indices_closure with the lowest position, 1, filtered out
indices_closure_skips_first(start, end, len) ==
    LET kept == SelectSeq(RangeInclusive(start, end), LAMBDA v : v > 1 /\ v <= len)
    IN [j \in 1..Len(kept) |-> kept[j] - 1]

\* the closure `indices` of FieldSpec::indices; len is tokens.len()
indices_closure(start, end, len) ==
    LET kept == SelectSeq(RangeInclusive(start, end), LAMBDA v : v > 0 /\ v <= len)
    IN [j \in 1..Len(kept) |-> kept[j] - 1]

\* LastPosition computed as tokens.len() - a
LastPosition_without_plus_one(len, a, checks) ==
    IF a <= len THEN Returned(len - a)
    ELSE IF checks THEN Panicked
    ELSE Returned((len - a) % UsizeModulus)

\* tokens.len() + 1 - a in usize: the subtraction overflows when a > len + 1,
\* which panics in a build with overflow checks and wraps in one without
LastPosition(len, a, checks) ==
    IF a <= len + 1 THEN Returned(len + 1 - a)
    ELSE IF checks THEN Panicked
    ELSE Returned((len + 1 - a) % UsizeModulus)

\* FieldSpec::indices with OpenRange(a) ending one token before the last
FieldSpec_indices_open_range_short(f, toks, checks) ==
    CASE f.kind = "Index" -> Returned(indices_closure(f.a, f.a, Len(toks)))
      [] f.kind = "OpenRange" -> Returned(indices_closure(f.a, Len(toks) - 1, Len(toks)))
      [] f.kind = "ClosedRange" -> Returned(indices_closure(f.a, f.b, Len(toks)))
      [] f.kind = "Last" ->
           LET p == LastPosition(Len(toks), f.a, checks)
           IN IF p.panicked THEN Panicked
              ELSE Returned(indices_closure(p.val, p.val, Len(toks)))
      [] f.kind = "RegularExpression" ->
           LET hits == PositionsWhere([j \in 1..Len(toks) |-> is_match(f.re, toks[j])])
           IN Returned(Flatten([j \in 1..Len(hits) |->
                         indices_closure(hits[j], hits[j], Len(toks))]))

\* FieldSpec_indices with a regex resolved to its first matching token only
FieldSpec_indices_first_match_only(f, toks, checks) ==
    CASE f.kind = "Index" -> Returned(indices_closure(f.a, f.a, Len(toks)))
      [] f.kind = "OpenRange" -> Returned(indices_closure(f.a, Len(toks), Len(toks)))
      [] f.kind = "ClosedRange" -> Returned(indices_closure(f.a, f.b, Len(toks)))
      [] f.kind = "Last" ->
           LET p == LastPosition(Len(toks), f.a, checks)
           IN IF p.panicked THEN Panicked
              ELSE Returned(indices_closure(p.val, p.val, Len(toks)))
      [] f.kind = "RegularExpression" ->
           LET hits == PositionsWhere([j \in 1..Len(toks) |-> is_match(f.re, toks[j])])
           IN Returned(IF hits = <<>> THEN <<>>
                       ELSE indices_closure(hits[1], hits[1], Len(toks)))

FieldSpec_indices(f, toks, checks) ==
    CASE f.kind = "Index" -> Returned(indices_closure(f.a, f.a, Len(toks)))
      [] f.kind = "OpenRange" -> Returned(indices_closure(f.a, Len(toks), Len(toks)))
      [] f.kind = "ClosedRange" -> Returned(indices_closure(f.a, f.b, Len(toks)))
      [] f.kind = "Last" ->
           LET p == LastPosition(Len(toks), f.a, checks)
           IN IF p.panicked THEN Panicked
              ELSE Returned(indices_closure(p.val, p.val, Len(toks)))
      [] f.kind = "RegularExpression" ->
           LET hits == PositionsWhere([j \in 1..Len(toks) |-> is_match(f.re, toks[j])])
           IN Returned(Flatten([j \in 1..Len(hits) |->
                         indices_closure(hits[j], hits[j], Len(toks))]))

----------------------------------------------------------------------------
(* Strings: str::trim, str::split, str::split_whitespace, str::parse.       *)

is_whitespace(c) == c \in {" ", "\t"}

RECURSIVE trim_start(_)
trim_start(s) ==
    IF s # <<>> /\ is_whitespace(Head(s)) THEN trim_start(Tail(s)) ELSE s

str_trim(s) == Reverse(trim_start(Reverse(trim_start(s))))

\* text.split(sep): one piece more than there are occurrences of sep
RECURSIVE split_from(_, _, _)
split_from(text, sep, piece) ==
    IF text = <<>> THEN <<piece>>
    ELSE IF Head(text) = sep THEN <<piece>> \o split_from(Tail(text), sep, <<>>)
    ELSE split_from(Tail(text), sep, Append(piece, Head(text)))

str_split(text, sep) == split_from(text, sep, <<>>)

\* text.split_whitespace(): the non-empty pieces between runs of whitespace
RECURSIVE split_whitespace_from(_, _)
split_whitespace_from(text, piece) ==
    LET done == IF piece = <<>> THEN <<>> ELSE <<piece>>
    IN IF text = <<>> THEN done
       ELSE IF is_whitespace(Head(text)) THEN done \o split_whitespace_from(Tail(text), <<>>)
       ELSE split_whitespace_from(Tail(text), Append(piece, Head(text)))

split_whitespace(text) == split_whitespace_from(text, <<>>)

\* main.rs split_on::<String>: parse::<String>() cannot fail
split_on(text, sep, trimmed) ==
    LET pieces == str_split(text, sep)
    IN [j \in 1..Len(pieces) |-> IF trimmed THEN str_trim(pieces[j]) ELSE pieces[j]]

\* main.rs tokens(): d is <<>> for None and <<c>> for Some(c)
tokens(text, d, trimmed) ==
    IF d # <<>> THEN split_on(text, d[1], trimmed) ELSE split_whitespace(text)

Digits == {"0", "1", "2", "3", "4", "5", "6", "7", "8", "9"}

DigitValue(c) ==
    CASE c = "0" -> 0 [] c = "1" -> 1 [] c = "2" -> 2 [] c = "3" -> 3 [] c = "4" -> 4
      [] c = "5" -> 5 [] c = "6" -> 6 [] c = "7" -> 7 [] c = "8" -> 8 [] c = "9" -> 9

all_digits(s) == s # <<>> /\ \A j \in 1..Len(s) : s[j] \in Digits

\* the value of a digit string, or UsizeModulus once it no longer fits a usize
RECURSIVE decimal(_, _)
decimal(s, acc) ==
    IF s = <<>> THEN acc
    ELSE IF acc * 10 + DigitValue(Head(s)) >= UsizeModulus THEN UsizeModulus
    ELSE decimal(Tail(s), acc * 10 + DigitValue(Head(s)))

Ok(v) == [ok |-> TRUE, val |-> v]
Err(kind) == [ok |-> FALSE, val |-> kind]

\* s.parse::<usize>(): an optional "+", then decimal digits that fit a usize
parse_usize(s) ==
    LET body == IF s # <<>> /\ Head(s) = "+" THEN Tail(s) ELSE s
    IN IF all_digits(body) /\ decimal(body, 0) < UsizeModulus
       THEN Ok(decimal(body, 0)) ELSE Err("ParseIntError")

cap_to_index(cap) == parse_usize(cap)

\* the tokens joined by the output separator
RECURSIVE join(_, _)
join(toks, sep) ==
    IF toks = <<>> THEN <<>>
    ELSE IF Len(toks) = 1 THEN toks[1]
    ELSE toks[1] \o sep \o join(Tail(toks), sep)

----------------------------------------------------------------------------
(* main: the -f arguments.                                                  *)

\* farg_slash_re, ^(?P<r_type>[rR])/(?P<r_exp>.+)/$
farg_slash_re_matches(fstr) ==
    /\ Len(fstr) >= 4
    /\ fstr[1] \in {"r", "R"}
    /\ fstr[2] = "/"
    /\ fstr[Len(fstr)] = "/"

\* one -f argument's contribution to fargs
split_farg(fstr) ==
    IF farg_slash_re_matches(fstr)
    THEN << <<fstr[1]>> \o SubSeq(fstr, 3, Len(fstr) - 1) >>
    ELSE str_split(fstr, ",")

\* sub_split_fargs splitting every -f argument at its commas, the slashed ones included
sub_split_fargs_every_comma(fs) ==
    LET unslashed(fstr) == IF farg_slash_re_matches(fstr)
                           THEN <<fstr[1]>> \o SubSeq(fstr, 3, Len(fstr) - 1) ELSE fstr
    IN Flatten([j \in 1..Len(fs) |-> str_split(unslashed(fs[j]), ",")])

\* main.rs 235-245: fargs, from the -f arguments in order
sub_split_fargs(fs) == Flatten([j \in 1..Len(fs) |-> split_farg(fs[j])])

\* farg_re, ^(:?r(?P<r_hdr>.+)|R(?P<r_all>.+)|(?P<start>\d+)-(?P<end>\d+)?|-(?P<last>\d+))$
\* the named groups that took part in the match, or no match
NoMatch == [matched |-> FALSE]

farg_re_captures(s) ==
    LET dash == PositionsWhere([j \in 1..Len(s) |-> s[j] = "-"])
    IN IF Len(s) >= 2 /\ s[1] = "r"
       THEN [matched |-> TRUE, r_hdr |-> Tail(s)]
       ELSE IF Len(s) >= 3 /\ s[1] = ":" /\ s[2] = "r"
       THEN [matched |-> TRUE, r_hdr |-> Tail(Tail(s))]
       ELSE IF Len(s) >= 2 /\ s[1] = "R"
       THEN [matched |-> TRUE, r_all |-> Tail(s)]
       ELSE IF Len(s) >= 2 /\ s[1] = "-" /\ all_digits(Tail(s))
       THEN [matched |-> TRUE, last |-> Tail(s)]
       ELSE IF Len(dash) = 1 /\ all_digits(SubSeq(s, 1, dash[1] - 1))
       THEN IF dash[1] = Len(s)
            THEN [matched |-> TRUE, start |-> SubSeq(s, 1, dash[1] - 1)]
            ELSE IF all_digits(SubSeq(s, dash[1] + 1, Len(s)))
            THEN [matched |-> TRUE, start |-> SubSeq(s, 1, dash[1] - 1),
                  end |-> SubSeq(s, dash[1] + 1, Len(s))]
            ELSE NoMatch
       ELSE NoMatch

\* header_indices with the 0-based position of enumerate() taken as the field number
header_indices_zero_based(re, header) ==
    LET hits == PositionsWhere([j \in 1..Len(header) |-> is_match(re, header[j])])
    IN [j \in 1..Len(hits) |-> Index(hits[j] - 1)]

\* the header tokens matching re, as Index specs, left to right
header_indices(re, header) ==
    LET hits == PositionsWhere([j \in 1..Len(header) |-> is_match(re, header[j])])
    IN [j \in 1..Len(hits) |-> Index(hits[j])]

\* one iteration of the loop over fargs: the specs s adds to field_enums, or the error
parse_farg(s, header) ==
    LET cap == farg_re_captures(s)
        has(name) == name \in DOMAIN cap
    IN IF cap.matched
       THEN IF has("r_hdr")
            THEN IF Regex_new_ok(cap.r_hdr) THEN Ok(header_indices(cap.r_hdr, header))
                 ELSE Err("regex::Error")
            ELSE IF has("r_all")
            THEN IF Regex_new_ok(cap.r_all) THEN Ok(<<RegularExpression(cap.r_all)>>)
                 ELSE Err("regex::Error")
            ELSE IF has("last")
            THEN LET last_index == cap_to_index(cap.last)
                 IN IF last_index.ok THEN Ok(<<Last(last_index.val)>>) ELSE last_index
            ELSE LET start_index == cap_to_index(cap.start)
                 IN IF ~start_index.ok THEN start_index
                    ELSE IF has("end")
                    THEN LET end_index == cap_to_index(cap.end)
                         IN IF end_index.ok
                            THEN Ok(<<ClosedRange(start_index.val, end_index.val)>>)
                            ELSE end_index
                    ELSE Ok(<<OpenRange(start_index.val)>>)
       ELSE LET index == parse_usize(s)
            IN IF index.ok THEN Ok(<<Index(index.val)>>) ELSE index

----------------------------------------------------------------------------
(* main: the indices of one line.                                           *)

\* field_enums.iter().flat_map(|f| f.indices(&field_tokens)): panics when a call does
flat_map_indices(enums, toks, checks) ==
    LET each == [j \in 1..Len(enums) |-> FieldSpec_indices(enums[j], toks, checks)]
    IN IF \E j \in 1..Len(enums) : each[j].panicked THEN Panicked
       ELSE Returned(Flatten([j \in 1..Len(enums) |-> each[j].val]))

\* itertools sorted(): ascending
RECURSIVE insert_sorted(_, _)
insert_sorted(v, s) ==
    IF s = <<>> THEN <<v>>
    ELSE IF v < Head(s) THEN <<v>> \o s
    ELSE <<Head(s)>> \o insert_sorted(v, Tail(s))

RECURSIVE sort(_)
sort(s) == IF s = <<>> THEN <<>> ELSE insert_sorted(s[Len(s)], sort(SubSeq(s, 1, Len(s) - 1)))

\* itertools unique(): an element passes the first time it is seen
RECURSIVE unique_from(_, _)
unique_from(s, seen) ==
    IF s = <<>> THEN <<>>
    ELSE IF Head(s) \in seen THEN unique_from(Tail(s), seen)
    ELSE <<Head(s)>> \o unique_from(Tail(s), seen \cup {Head(s)})

\* unique as sort-then-dedup
unique_by_sorting(s) == unique_from(sort(s), {})

unique(s) == unique_from(s, {})

\* collect_indices with -s deduplicating as well
collect_indices_sorted_dedups(s, u, srt) ==
    IF srt THEN sort(unique(s)) ELSE (IF u THEN unique(s) ELSE s)

\* collect_indices deduplicating whether or not -u is given
collect_indices_always_unique(s, u, srt) ==
    IF srt THEN sort(unique(s)) ELSE unique(s)

\* the (unique)? (sorted)? list of indices
collect_indices(s, u, srt) ==
    IF u THEN (IF srt THEN sort(unique(s)) ELSE unique(s))
    ELSE (IF srt THEN sort(s) ELSE s)

\* outdelim when -o is not given: the input delimiter, or a tab
outdelim(d) == IF d # <<>> THEN d ELSE <<"\t">>

\* the printed line
output_line(idx, toks, d) == join([j \in 1..Len(idx) |-> toks[idx[j] + 1]], outdelim(d))

----------------------------------------------------------------------------
(* The inputs the specifications draw from.                                 *)

\* -f argument lists: each -f argument is a non-empty string
FieldsSamples ==
    { <<<<"1">>>>,
      <<<<"1", ",", "1">>>>,
      <<<<"3", ",", "1", ",", "3", ",", "2", ",", "1">>>>,
      <<<<"3", "-", "1">>>>,
      <<<<"2", "-">>>>,
      <<<<"-", "1">>>>,
      <<<<"-", "3">>>>,
      <<<<"r", "a">>>>,
      <<<<"R", "^", "a">>>>,
      <<<<"R", "/", "b", "$", "/">>>>,
      <<<<"2">>, <<"r", "/", "^", "a", "/">>, <<"-", "1">>>>,
      <<<<"1", ",", "r", "a", ",", "R", "b">>>>,
      <<<<"x">>>>,
      <<<<"1", ",", "r", "(">>>>,
      <<<<"r", "a", ",", "r", "b", "$">>>> }

LineSamples == { <<>>, <<"a", ",", "b", " ", "a", "b">>, <<"b", " ", ",", " ", "a", ",", "b">> }

BoundedSeq(S, max) == UNION {[1..m -> S] : m \in 0..max}

\* no -d; -d, ; -d, -t
DelimSamples == { <<<<>>, FALSE>>, <<<<",">>, FALSE>>, <<<<",">>, TRUE>> }

TextSamples == { <<"a">>, <<"b">>, <<"a", "b">> }

PatternSamples == { <<"a">>, <<"^", "b">>, <<"b", "$">>, <<".">> }

FieldSpecSamples ==
    {Index(a) : a \in 0..MaxParam} \cup {Last(a) : a \in 0..MaxParam}
    \cup {OpenRange(a) : a \in 0..MaxParam}
    \cup {ClosedRange(a, b) : a \in 0..MaxParam, b \in 0..MaxParam}
    \cup {RegularExpression(re) : re \in PatternSamples}

----------------------------------------------------------------------------
(* Spec: a run of main.                                                     *)

\* the other tools are not in use
ToolsIdle ==
    /\ nom_typed_tokens = <<>> /\ b64_src = <<>> /\ b64_n = 0 /\ b64_dst = <<>>
    /\ b64_out = <<>> /\ b64_ret = 0 /\ crc_msg = <<>> /\ crc_algo_ret = <<>> /\ crc_ret = <<>>

\* the tokenize crate is not in use
TokenizeIdle ==
    /\ tokenization_spec = <<>> /\ input_text = <<>> /\ tokenizer = <<>>
    /\ words = <<>> /\ typed_tokens = <<>> /\ tokens_out = <<>>

Init ==
    /\ overflow_checks \in BOOLEAN
    /\ fields \in FieldsSamples
    /\ uniq \in BOOLEAN
    /\ sorted \in BOOLEAN
    /\ zero \in BOOLEAN
    /\ complement \in BOOLEAN
    /\ \E d \in DelimSamples : delim = d[1] /\ trim = d[2]
    /\ input \in BoundedSeq(LineSamples, MaxLines)
    /\ pc = "args"
    /\ fargs = <<>>
    /\ lines = <<>>
    /\ file_header = <<>>
    /\ n = 0
    /\ field_enums = <<>>
    /\ i = 0
    /\ field_tokens = <<>>
    /\ indices = <<>>
    /\ out = <<>>
    /\ err = ""
    /\ TokenizeIdle
    /\ ToolsIdle

\* main.rs 93-212: clap matches the command line against the arguments main defines
\* (FILE, -f, -d, -o, -u, -s, -T, -t, -z) and exits with a usage error on any other
GetMatches ==
    /\ pc = "args"
    /\ pc' = IF complement THEN "failed" ELSE "split"
    /\ err' = IF complement THEN "UnknownArgument" ELSE err
    /\ UNCHANGED tokenize_vars
    /\ UNCHANGED cutr_vars
    /\ UNCHANGED tools_vars

\* main.rs 234-245: sub-split all non-regex -f args on comma
SplitFargs ==
    /\ pc = "split"
    /\ fargs' = sub_split_fargs(fields)
    /\ pc' = "read"
    /\ UNCHANGED tokenize_vars
    /\ UNCHANGED tools_vars
    /\ UNCHANGED <<overflow_checks, complement, fields, uniq, sorted, zero, delim, trim, input, lines,
                   file_header, n, field_enums, i, field_tokens, indices, out, err>>

\* ReadLines printing the header line as soon as it is read
ReadLines_printing_header ==
    /\ pc = "read"
    /\ lines' = input
    /\ file_header' = IF input = <<>> THEN <<>> ELSE tokens(input[1], delim, trim)
    /\ out' = IF input = <<>> THEN out ELSE <<input[1]>>
    /\ pc' = IF input = <<>> THEN "done" ELSE "parse"
    /\ UNCHANGED tokenize_vars
    /\ UNCHANGED tools_vars
    /\ UNCHANGED <<overflow_checks, complement, fields, uniq, sorted, zero, delim, trim,
                   input, fargs, n, field_enums, i, field_tokens, indices, err>>

\* main.rs 273-293: read the input; return on no input, else tokenize the header
ReadLines ==
    /\ pc = "read"
    /\ lines' = input
    /\ file_header' = IF input = <<>> THEN <<>> ELSE tokens(input[1], delim, trim)
    /\ pc' = IF input = <<>> THEN "done" ELSE "parse"
    /\ UNCHANGED tokenize_vars
    /\ UNCHANGED tools_vars
    /\ UNCHANGED <<overflow_checks, complement, fields, uniq, sorted, zero, delim, trim, input, fargs,
                   n, field_enums, i, field_tokens, indices, out, err>>

\* main.rs 301-340: one iteration of the loop over fargs
ParseFarg ==
    /\ pc = "parse"
    /\ n < Len(fargs)
    /\ LET parsed == parse_farg(fargs[n + 1], file_header)
       IN IF parsed.ok
          THEN /\ field_enums' = field_enums \o parsed.val
               /\ n' = n + 1
               /\ pc' = IF n + 1 = Len(fargs) THEN "process" ELSE "parse"
               /\ err' = err
          ELSE /\ err' = parsed.val
               /\ pc' = "failed"
               /\ UNCHANGED <<field_enums, n>>
    /\ UNCHANGED tokenize_vars
    /\ UNCHANGED tools_vars
    /\ UNCHANGED <<overflow_checks, complement, fields, uniq, sorted, zero, delim, trim, input, fargs,
                   lines, file_header, i, field_tokens, indices, out>>

\* ProcessLine leaving out every line whose index list is empty, with or without -z
ProcessLine_omitting_every_empty ==
    /\ pc = "process"
    /\ i < Len(lines)
    /\ LET toks == tokens(lines[i + 1], delim, trim)
           flat == flat_map_indices(field_enums, toks, overflow_checks)
           idx == collect_indices(flat.val, uniq, sorted)
       IN /\ field_tokens' = toks
          /\ IF flat.panicked
             THEN /\ pc' = "panicked"
                  /\ err' = "attempt to subtract with overflow"
                  /\ UNCHANGED <<indices, out, i>>
             ELSE /\ indices' = idx
                  /\ out' = IF idx # <<>>
                            THEN Append(out, output_line(idx, toks, delim)) ELSE out
                  /\ i' = i + 1
                  /\ pc' = IF i + 1 = Len(lines) THEN "done" ELSE "process"
                  /\ err' = err
    /\ UNCHANGED tokenize_vars
    /\ UNCHANGED tools_vars
    /\ UNCHANGED <<overflow_checks, complement, fields, uniq, sorted, zero, delim, trim,
                   input, fargs, lines, file_header, n, field_enums>>

\* main.rs 343-372: one iteration of the loop over lines
ProcessLine ==
    /\ pc = "process"
    /\ i < Len(lines)
    /\ LET toks == tokens(lines[i + 1], delim, trim)
           flat == flat_map_indices(field_enums, toks, overflow_checks)
           idx == collect_indices(flat.val, uniq, sorted)
       IN /\ field_tokens' = toks
          /\ IF flat.panicked
             THEN /\ pc' = "panicked"
                  /\ err' = "attempt to subtract with overflow"
                  /\ UNCHANGED <<indices, out, i>>
             ELSE /\ indices' = idx
                  /\ out' = IF idx # <<>> \/ ~zero
                            THEN Append(out, output_line(idx, toks, delim)) ELSE out
                  /\ i' = i + 1
                  /\ pc' = IF i + 1 = Len(lines) THEN "done" ELSE "process"
                  /\ err' = err
    /\ UNCHANGED tokenize_vars
    /\ UNCHANGED tools_vars
    /\ UNCHANGED <<overflow_checks, complement, fields, uniq, sorted, zero, delim, trim, input, fargs,
                   lines, file_header, n, field_enums>>

Next == GetMatches \/ SplitFargs \/ ReadLines \/ ParseFarg \/ ProcessLine

Spec == Init /\ [][Next]_vars

----------------------------------------------------------------------------
(* SpecIndices: one call of FieldSpec::indices.                             *)

InitIndices ==
    /\ overflow_checks \in BOOLEAN
    /\ \E f \in FieldSpecSamples : field_enums = <<f>>
    /\ field_tokens \in BoundedSeq(TextSamples, MaxTokens)
    /\ pc = "call"
    /\ indices = <<>>
    /\ err = ""
    /\ fields = <<>> /\ uniq = FALSE /\ sorted = FALSE /\ zero = FALSE /\ complement = FALSE
    /\ delim = <<>> /\ trim = FALSE /\ input = <<>> /\ fargs = <<>> /\ lines = <<>>
    /\ file_header = <<>> /\ n = 0 /\ i = 0 /\ out = <<>>
    /\ TokenizeIdle
    /\ ToolsIdle

\* field_enums[1].indices(&field_tokens)
CallIndices ==
    /\ pc = "call"
    /\ LET r == FieldSpec_indices(field_enums[1], field_tokens, overflow_checks)
       IN /\ indices' = r.val
          /\ pc' = IF r.panicked THEN "panicked" ELSE "returned"
          /\ err' = IF r.panicked THEN "attempt to subtract with overflow" ELSE err
    /\ UNCHANGED tokenize_vars
    /\ UNCHANGED tools_vars
    /\ UNCHANGED <<overflow_checks, complement, fields, uniq, sorted, zero, delim, trim, input, fargs,
                   lines, file_header, n, field_enums, i, field_tokens, out>>

NextIndices == CallIndices

SpecIndices == InitIndices /\ [][NextIndices]_vars

----------------------------------------------------------------------------
(* Properties of FieldSpec::indices, under SpecIndices.                     *)

Called == pc \in {"returned", "panicked"}
TheSpec == field_enums[1]
TokenCount == Len(field_tokens)

Min(a, b) == IF a <= b THEN a ELSE b
Max(a, b) == IF a <= b THEN b ELSE a

StrictlyIncreasing(s) == \A j \in 1..(Len(s) - 1) : s[j] < s[j + 1]

\* the elements of a finite set of numbers, in increasing order
Ascending(S) == CHOOSE s \in [1..Cardinality(S) -> S] : StrictlyIncreasing(s)

\* the 1-based positions lo..hi clipped to 1..k, 0-based, in increasing order
Clipped(lo, hi, k) ==
    LET from == Max(lo, 1)
        to == Min(hi, k)
    IN IF to < from THEN <<>> ELSE [j \in 1..(to - from + 1) |-> from + j - 2]

\* C1: every index FieldSpec::indices returns, for every variant and parameter,
\* is at least 0 and less than the number of tokens.
C1_IndicesInBounds ==
    pc = "returned" =>
        \A j \in 1..Len(indices) : 0 <= indices[j] /\ indices[j] < TokenCount

C1_Witness ==
    /\ pc = "returned"
    /\ TheSpec.kind = "ClosedRange"
    /\ TheSpec.a = 0
    /\ TheSpec.b > TokenCount
    /\ TokenCount >= 2
    /\ Len(indices) = TokenCount

\* C2: on k tokens Index(n) resolves to [n-1] when 1 <= n <= k, and to the
\* empty list when n = 0 or n > k.
C2_IndexResolution ==
    (Called /\ TheSpec.kind = "Index") =>
        /\ pc = "returned"
        /\ indices = IF 1 <= TheSpec.a /\ TheSpec.a <= TokenCount
                     THEN <<TheSpec.a - 1>> ELSE <<>>

C2_Witness ==
    /\ pc = "returned"
    /\ TheSpec.kind = "Index"
    /\ TheSpec.a = TokenCount
    /\ TokenCount >= 2
    /\ indices = <<TokenCount - 1>>

\* C3: on k tokens ClosedRange(a, b) resolves to v-1 for v from a up to b
\* (a <= b) or from a down to b (a > b), keeping the v with 1 <= v <= k in that
\* order; so it is the reverse of what ClosedRange(b, a) resolves to.
C3_ClosedRangeResolution ==
    (Called /\ TheSpec.kind = "ClosedRange") =>
        LET a == TheSpec.a
            b == TheSpec.b
            up == Clipped(Min(a, b), Max(a, b), TokenCount)
            swapped == FieldSpec_indices(ClosedRange(b, a), field_tokens, overflow_checks)
        IN /\ pc = "returned"
           /\ indices = IF a <= b THEN up ELSE Reverse(up)
           /\ ~swapped.panicked
           /\ indices = Reverse(swapped.val)

C3_Witness ==
    /\ pc = "returned"
    /\ TheSpec.kind = "ClosedRange"
    /\ TheSpec.a > TokenCount
    /\ TheSpec.b = 0
    /\ TokenCount = 3
    /\ indices = <<2, 1, 0>>

\* C4: on k tokens Last(n) with n > k resolves to the empty list, and the
\* resolution neither fails nor panics nor wraps around to a valid index.
C4_LastBeyondCountIsEmpty ==
    (Called /\ TheSpec.kind = "Last" /\ TheSpec.a > TokenCount) =>
        (pc = "returned" /\ indices = <<>>)

\* C5: on k tokens Last(n) resolves to [k-n] when 1 <= n <= k, and Last(0)
\* resolves to the empty list.
C5_LastResolution ==
    (Called /\ TheSpec.kind = "Last" /\ TheSpec.a <= TokenCount) =>
        /\ pc = "returned"
        /\ indices = IF TheSpec.a >= 1 THEN <<TokenCount - TheSpec.a>> ELSE <<>>

C5_Witness ==
    /\ pc = "returned"
    /\ TheSpec.kind = "Last"
    /\ TheSpec.a = TokenCount
    /\ TokenCount >= 2
    /\ indices = <<0>>

\* C8: on a line with zero tokens FieldSpec::indices returns the empty list and
\* does not panic, for every variant and every parameter.
C8_ZeroTokensIsEmpty ==
    (Called /\ field_tokens = <<>>) => (pc = "returned" /\ indices = <<>>)

----------------------------------------------------------------------------
(* Properties of a run of main, under Spec.                                 *)

\* a line has been processed: indices and field_tokens are those of line i
AfterLine == pc \in {"process", "done"} /\ i > 0

\* the loop over fargs has ended without an error
Parsed == pc \in {"process", "panicked"} \/ (pc = "done" /\ lines # <<>>)

IsHeaderRegex(s) == "r_hdr" \in DOMAIN farg_re_captures(s)

\* the 1-based positions of the tokens of line 0 that match the pattern of the
\* header-regex argument s, in increasing order
HeaderHits(s) ==
    LET header == tokens(input[1], delim, trim)
    IN Ascending({p \in 1..Len(header) : is_match(farg_re_captures(s).r_hdr, header[p])})

C6_Resolved ==
    Parsed =>
        field_enums = Flatten([j \in 1..Len(fargs) |->
            IF IsHeaderRegex(fargs[j])
            THEN [m \in 1..Len(HeaderHits(fargs[j])) |-> Index(HeaderHits(fargs[j])[m])]
            ELSE parse_farg(fargs[j], <<>>).val])

C6_BeforeOutput == (out # <<>> \/ i > 0) => Parsed

C6_OnlyHeaderPositions ==
    (AfterLine /\ ~uniq /\ ~sorted /\ \A j \in 1..Len(fargs) : IsHeaderRegex(fargs[j])) =>
        indices = Flatten([j \in 1..Len(fargs) |->
            LET kept == SelectSeq(HeaderHits(fargs[j]), LAMBDA p : p <= Len(field_tokens))
            IN [m \in 1..Len(kept) |-> kept[m] - 1]])

\* C6: a header-regex field spec is resolved once, against the tokens of line 0
\* and before any line is output, into Index(p) for each position p of a
\* matching header token, left to right; on every line its indices are those
\* positions that the line's token count allows, whatever the line's texts;
\* and field_enums does not change while the lines are processed.
C6_HeaderRegexResolvedOnce ==
    /\ [](C6_Resolved /\ C6_BeforeOutput /\ C6_OnlyHeaderPositions)
    /\ [][Parsed => field_enums' = field_enums]_vars

C6_Witness ==
    /\ pc = "done"
    /\ i = 2
    /\ ~uniq /\ ~sorted
    /\ \A j \in 1..Len(fargs) : IsHeaderRegex(fargs[j])
    /\ indices # <<>>
    /\ \E j \in 1..Len(indices) :
          ~is_match(farg_re_captures(fargs[1]).r_hdr, field_tokens[indices[j] + 1])
    /\ \E p \in 1..Len(field_tokens) :
          /\ is_match(farg_re_captures(fargs[1]).r_hdr, field_tokens[p])
          /\ \A j \in 1..Len(indices) : indices[j] # p - 1

\* C7: a data-regex field spec resolves, on each line, to the 0-based
\* positions of that line's tokens that match, in strictly increasing order;
\* a line with no matching token gives the empty list whatever earlier lines
\* matched.
C7_DataRegexPerLine ==
    (AfterLine /\ Len(field_enums) = 1 /\ field_enums[1].kind = "RegularExpression") =>
        LET line == tokens(lines[i], delim, trim)
            hits == {p \in 1..Len(line) : is_match(field_enums[1].re, line[p])}
        IN /\ StrictlyIncreasing(indices)
           /\ {indices[j] : j \in 1..Len(indices)} = {p - 1 : p \in hits}

C7_Witness ==
    /\ pc = "done"
    /\ i = 2
    /\ Len(field_enums) = 1
    /\ field_enums[1].kind = "RegularExpression"
    /\ indices = <<>>
    /\ Len(field_tokens) >= 2
    /\ LET first == tokens(lines[1], delim, trim)
       IN \E p \in 1..Len(first) : is_match(field_enums[1].re, first[p])

\* C9: with neither -u nor -s the index list of a line is the concatenation of
\* the specs' indices() results in the order of the specs, duplicates kept.
C9_ConcatenationInOrder ==
    (AfterLine /\ ~uniq /\ ~sorted) =>
        LET part(j) == FieldSpec_indices(field_enums[j], field_tokens, overflow_checks).val
            RECURSIVE Offset(_)
            Offset(j) == IF j = 1 THEN 0 ELSE Offset(j - 1) + Len(part(j - 1))
        IN /\ Len(indices) = Offset(Len(field_enums) + 1)
           /\ \A j \in 1..Len(field_enums) : \A m \in 1..Len(part(j)) :
                 indices[Offset(j) + m] = part(j)[m]
           /\ (fields = << <<"1", ",", "1">> >> /\ field_tokens # <<>>) => indices = <<0, 0>>
           /\ (fields = << <<"3", ",", "1", ",", "3", ",", "2", ",", "1">> >>
               /\ Len(field_tokens) = 3) => indices = <<2, 0, 2, 1, 0>>

C9_Witness ==
    /\ AfterLine
    /\ ~uniq /\ ~sorted
    /\ Len(field_enums) = 5
    /\ indices = <<2, 0, 2, 1, 0>>

\* C10: with -u and without -s the index list holds each index of the
\* concatenated list once, in the order of first occurrence, unsorted:
\* [2,0,2,1,0] becomes [2,0,1].
C10_UniqueKeepsFirstOccurrence ==
    (AfterLine /\ uniq /\ ~sorted) =>
        LET flat == flat_map_indices(field_enums, field_tokens, overflow_checks).val
            FirstAt(v) == CHOOSE p \in 1..Len(flat) :
                              flat[p] = v /\ \A q \in 1..(p - 1) : flat[q] # v
        IN /\ {indices[j] : j \in 1..Len(indices)} = {flat[j] : j \in 1..Len(flat)}
           /\ \A j, m \in 1..Len(indices) : j # m => indices[j] # indices[m]
           /\ \A j, m \in 1..Len(indices) :
                 j < m => FirstAt(indices[j]) < FirstAt(indices[m])
           /\ flat = <<2, 0, 2, 1, 0>> => indices = <<2, 0, 1>>

C10_Witness ==
    /\ AfterLine
    /\ uniq /\ ~sorted
    /\ flat_map_indices(field_enums, field_tokens, overflow_checks).val = <<2, 0, 2, 1, 0>>
    /\ indices = <<2, 0, 1>>

\* how many times v occurs in s
Occurrences(s, v) == Cardinality({j \in 1..Len(s) : s[j] = v})

\* C11: with -s the index list is ascending; with -u as well it is the strictly
\* increasing list of the distinct indices; with -s alone it is a sorted
\* permutation of the concatenated list, every duplicate kept.
C11_SortedLast ==
    (AfterLine /\ sorted) =>
        LET flat == flat_map_indices(field_enums, field_tokens, overflow_checks).val
            values == {flat[j] : j \in 1..Len(flat)}
        IN /\ \A j \in 1..(Len(indices) - 1) : indices[j] <= indices[j + 1]
           /\ {indices[j] : j \in 1..Len(indices)} = values
           /\ uniq => StrictlyIncreasing(indices)
           /\ ~uniq => \A v \in values : Occurrences(indices, v) = Occurrences(flat, v)

C11_Witness ==
    /\ AfterLine
    /\ sorted /\ ~uniq
    /\ flat_map_indices(field_enums, field_tokens, overflow_checks).val = <<2, 0, 2, 1, 0>>
    /\ indices = <<0, 0, 1, 2, 2>>

\* the indices of 0..k-1 that are not in the list selected, ascending
ComplementOf(selected, k) ==
    LET chosen == {selected[x] : x \in 1..Len(selected)}
        pos == PositionsWhere([j \in 1..k |-> (j - 1) \notin chosen])
    IN [j \in 1..Len(pos) |-> pos[j] - 1]

\* C12: a run asked for the complement is not refused, and the index list of each
\* line is the ascending list of the indices of 0..token_count-1 that the field
\* specs did not select.
C12_ComplementReplacesIndices ==
    complement =>
        /\ err # "UnknownArgument"
        /\ AfterLine =>
               indices = ComplementOf(
                   flat_map_indices(field_enums, field_tokens, overflow_checks).val,
                   Len(field_tokens))

----------------------------------------------------------------------------
(* The tokenize crate.  An Option is <<>> for None and <<v>> for Some(v).   *)
(* A char outside ASCII is named by its code point: "U+00E9" is e with an   *)
(* acute accent (two bytes of UTF-8), "U+1F600" an emoji (four bytes).      *)

\* how long the text given to a tokenizer may be
MaxText == 3
\* how long the input of RegexBoundaryTokenizer::tokens may be
MaxInput == 4

\* char::to_lowercase, on the chars of the model
char_to_lowercase(c) == CASE c = "A" -> "a" [] c = "B" -> "b" [] OTHER -> c

\* str::to_lowercase
to_lowercase(s) == [j \in 1..Len(s) |-> char_to_lowercase(s[j])]

\* Option::unwrap_or_else(|| "".into())
unwrap_or_empty(opt) == IF opt = <<>> THEN <<>> ELSE opt[1]

\* str::starts_with
starts_with(s, pat) == Len(pat) <= Len(s) /\ SubSeq(s, 1, Len(pat)) = pat

RECURSIVE split_str_from(_, _, _)
\* str::split(&str) with a non-empty pattern: the pieces between the matches found
\* left to right, piece being the one under construction
split_str_from(s, pat, piece) ==
    IF s = <<>> THEN <<piece>>
    ELSE IF starts_with(s, pat)
         THEN <<piece>> \o split_str_from(SubSeq(s, Len(pat) + 1, Len(s)), pat, <<>>)
         ELSE split_str_from(Tail(s), pat, Append(piece, Head(s)))

\* str::split(&str) keeping only the non-empty pieces
split_str_dropping_empty(s, pat) ==
    IF pat = <<>>
    THEN <<<<>>>> \o [j \in 1..Len(s) |-> <<s[j]>>] \o <<<<>>>>
    ELSE SelectSeq(split_str_from(s, pat, <<>>), LAMBDA piece : piece # <<>>)

\* str::split(&str): the empty pattern matches at every char boundary, both ends included
split_str(s, pat) ==
    IF pat = <<>>
    THEN <<<<>>>> \o [j \in 1..Len(s) |-> <<s[j]>>] \o <<<<>>>>
    ELSE split_str_from(s, pat, <<>>)

\* SplitStrTokenizer::new
SplitStrTokenizer_new(split_pattern) ==
    [type |-> "SplitStr", split_pattern |-> unwrap_or_empty(split_pattern)]

\* SplitStrTokenizer::words returning no token for the empty text
SplitStrTokenizer_words_none_for_empty(self, s) ==
    IF s = <<>> THEN <<>> ELSE split_str(s, self.split_pattern)

\* SplitStrTokenizer::words
SplitStrTokenizer_words(self, s) == split_str(s, self.split_pattern)

\* the Word_Break property (UAX #29) of the letters, the space and the comma
word_break_property(c) ==
    CASE c \in {"a", "b", "A", "B", "U+00E9"} -> "ALetter"
      [] c = " " -> "WSegSpace"
      [] c = "," -> "MidNum"
      [] OTHER -> "Any"

\* UAX #29 on ALetter, WSegSpace and MidNum: no boundary inside a run of letters (WB5)
\* nor inside a run of spaces (WB3d); a boundary everywhere else (WB999)
no_word_boundary(c, d) ==
    \/ word_break_property(c) = "ALetter" /\ word_break_property(d) = "ALetter"
    \/ word_break_property(c) = "WSegSpace" /\ word_break_property(d) = "WSegSpace"

RECURSIVE word_bounds_from(_, _)
\* the segments of s, piece being the non-empty one under construction
word_bounds_from(s, piece) ==
    IF s = <<>> THEN <<piece>>
    ELSE IF no_word_boundary(piece[Len(piece)], Head(s))
         THEN word_bounds_from(Tail(s), Append(piece, Head(s)))
         ELSE <<piece>> \o word_bounds_from(Tail(s), <<Head(s)>>)

\* UnicodeSegmentation::split_word_bounds
split_word_bounds(s) == IF s = <<>> THEN <<>> ELSE word_bounds_from(Tail(s), <<Head(s)>>)

\* char::is_alphanumeric, on the chars of the model
is_alphanumeric(c) == c \in {"a", "b", "A", "B", "U+00E9"}

\* UnicodeSegmentation::unicode_words: the segments that hold an alphanumeric char
unicode_words(s) ==
    SelectSeq(split_word_bounds(s),
              LAMBDA piece : \E j \in 1..Len(piece) : is_alphanumeric(piece[j]))

\* char::len_utf8
len_utf8(c) == CASE c = "U+00E9" -> 2 [] c = "U+1F600" -> 4 [] OTHER -> 1

RECURSIVE str_len(_)
\* str::len, in bytes
str_len(s) == IF s = <<>> THEN 0 ELSE len_utf8(Head(s)) + str_len(Tail(s))

\* &input[lo..hi]: the chars whose bytes lie in lo..hi-1
byte_slice(s, lo, hi) ==
    LET pos == PositionsWhere([j \in 1..Len(s) |->
                   /\ lo <= str_len(SubSeq(s, 1, j - 1))
                   /\ str_len(SubSeq(s, 1, j)) <= hi])
    IN [j \in 1..Len(pos) |-> s[pos[j]]]

\* the perl class \w of the regex crate, on the chars of the model
is_word_char(c) == c \in {"a", "b", "A", "B", "U+00E9"}

\* str::contains(char)
contains_char(s, c) == \E j \in 1..Len(s) : s[j] = c

\* RegexBoundaryTokenizer::new
RegexBoundaryTokenizer_new(excluded_boundary_chars) ==
    [type |-> "RegexBoundary",
     excluded_boundary_chars |-> unwrap_or_empty(excluded_boundary_chars)]

\* boundary_predicate with no char excluded
boundary_predicate_ignores_excluded(self, c) == ~is_word_char(c)

\* RegexBoundaryTokenizer::boundary_predicate: ^X\b matches "X" + c when c is no word char
boundary_predicate(self, c) ==
    ~contains_char(self.excluded_boundary_chars, c) /\ ~is_word_char(c)

\* Token::B and Token::T
Token_B(s) == [type |-> "B", s |-> s]
Token_T(s) == [type |-> "T", s |-> s]

\* the body of the loop of tokens, pushing without the tests i > t and i > b
tokens_step_unguarded(self, s, c, st) ==
    IF boundary_predicate(self, c)
    THEN [tokens |-> Append(st.tokens, Token_T(byte_slice(s, st.t, st.i))),
          i |-> st.i + len_utf8(c), t |-> st.i + len_utf8(c), b |-> st.b]
    ELSE [tokens |-> Append(st.tokens, Token_B(byte_slice(s, st.b, st.i))),
          i |-> st.i + len_utf8(c), b |-> st.i + len_utf8(c), t |-> st.t]

\* the body of the loop of RegexBoundaryTokenizer::tokens, for the char c of the input s
tokens_step(self, s, c, st) ==
    IF boundary_predicate(self, c)
    THEN [tokens |-> IF st.i > st.t
                     THEN Append(st.tokens, Token_T(byte_slice(s, st.t, st.i)))
                     ELSE st.tokens,
          i |-> st.i + len_utf8(c), t |-> st.i + len_utf8(c), b |-> st.b]
    ELSE [tokens |-> IF st.i > st.b
                     THEN Append(st.tokens, Token_B(byte_slice(s, st.b, st.i)))
                     ELSE st.tokens,
          i |-> st.i + len_utf8(c), b |-> st.i + len_utf8(c), t |-> st.t]

RECURSIVE tokens_loop(_, _, _, _)
\* for c in input.chars(), from the k-th char on
tokens_loop(self, s, k, st) ==
    IF k > Len(s) THEN st
    ELSE tokens_loop(self, s, k + 1, tokens_step(self, s, s[k], st))

\* RegexBoundaryTokenizer::tokens without the push after the loop
RegexBoundaryTokenizer_tokens_no_last_push(self, s) ==
    tokens_loop(self, s, 1, [tokens |-> <<>>, i |-> 0, b |-> 0, t |-> 0]).tokens

\* RegexBoundaryTokenizer::tokens
RegexBoundaryTokenizer_tokens(self, s) ==
    LET st == tokens_loop(self, s, 1, [tokens |-> <<>>, i |-> 0, b |-> 0, t |-> 0])
    IN IF st.i > st.b THEN Append(st.tokens, Token_B(byte_slice(s, st.b, st.i)))
       ELSE IF st.i > st.t THEN Append(st.tokens, Token_T(byte_slice(s, st.t, st.i)))
       ELSE st.tokens

\* Token::value of each element
token_values(toks) == [j \in 1..Len(toks) |-> toks[j].s]

\* RegexBoundaryTokenizer::words: the values of the Token::T elements
RegexBoundaryTokenizer_words(self, s) ==
    token_values(SelectSeq(RegexBoundaryTokenizer_tokens(self, s),
                           LAMBDA tok : tok.type = "T"))

\* WordTokens::words, delegated to the variant
WordTokens_words(self, s) ==
    CASE self.type = "SplitStr" -> SplitStrTokenizer_words(self, s)
      [] self.type = "UnicodeSegment" -> split_word_bounds(s)
      [] self.type = "UnicodeWord" -> unicode_words(s)
      [] self.type = "Whitespace" -> split_whitespace(s)
      [] self.type = "RegexBoundary" -> RegexBoundaryTokenizer_words(self, s)

\* tokenizer_from_spec: the word tokenizer, then the config, whose Regex::new(re).unwrap()
\* panics on a pattern that does not compile
tokenizer_from_spec(spec) ==
    LET param == spec.tokenizer_init_param
        word_tokenizer ==
            CASE spec.tokenizer_type = "SplitStr" -> SplitStrTokenizer_new(param)
              [] spec.tokenizer_type = "RegexBoundary" -> RegexBoundaryTokenizer_new(param)
              [] OTHER -> [type |-> spec.tokenizer_type]
    IN IF spec.filter_tokens_re # <<>> /\ ~Regex_new_ok(spec.filter_tokens_re[1])
       THEN Panicked
       ELSE Returned(Ok([config |-> [downcase_text |-> spec.downcase_text,
                                     trimmed_tokens |-> spec.trimmed_tokens,
                                     filter_tokens_re |-> spec.filter_tokens_re],
                         word_tokenizer |-> word_tokenizer]))

\* transform_filter testing the filter on the tokens before they are trimmed
transform_filter_before_trim(config, ws) ==
    LET kept == IF config.filter_tokens_re = <<>> THEN ws
                ELSE SelectSeq(ws, LAMBDA tok : ~is_match(config.filter_tokens_re[1], tok))
    IN IF config.trimmed_tokens THEN [j \in 1..Len(kept) |-> str_trim(kept[j])] ELSE kept

\* Tokenizer::transform_filter
transform_filter(config, ws) ==
    LET trimmed == IF config.trimmed_tokens THEN [j \in 1..Len(ws) |-> str_trim(ws[j])]
                   ELSE ws
    IN IF config.filter_tokens_re = <<>> THEN trimmed
       ELSE SelectSeq(trimmed, LAMBDA tok : ~is_match(config.filter_tokens_re[1], tok))

\* the words Tokenizer::tokens hands to transform_filter
Tokenizer_words(self, s) ==
    WordTokens_words(self.word_tokenizer,
                     IF self.config.downcase_text THEN to_lowercase(s) ELSE s)

\* Tokenizer::tokens downcasing the tokens instead of the text
Tokenizer_tokens_downcase_last(self, s) ==
    LET toks == transform_filter(self.config, WordTokens_words(self.word_tokenizer, s))
    IN IF self.config.downcase_text THEN [j \in 1..Len(toks) |-> to_lowercase(toks[j])]
       ELSE toks

\* Tokenizer::tokens
Tokenizer_tokens(self, s) == transform_filter(self.config, Tokenizer_words(self, s))

----------------------------------------------------------------------------
(* SpecTokenizer: tokenizer_from_spec, then Tokenizer::tokens on one text.  *)

\* the tokenizer types with the init params tried with them
WordTokenizerSamples ==
    { <<"SplitStr", <<>>>>, <<"SplitStr", << <<",">> >>>>, <<"SplitStr", << <<"a", "a">> >>>>,
      <<"UnicodeSegment", <<>>>>, <<"UnicodeWord", <<>>>>, <<"Whitespace", <<>>>>,
      <<"RegexBoundary", <<>>>>, <<"RegexBoundary", << <<",">> >>>> }

\* the filter patterns tried: none, ^$, a, and ( which does not compile
FilterSamples == { <<>>, << <<"^", "$">> >>, << <<"a">> >>, << <<"(">> >> }

TokenizationSpecSamples ==
    { [tokenizer_type |-> w[1], tokenizer_init_param |-> w[2], downcase_text |-> d,
       trimmed_tokens |-> t, filter_tokens_re |-> f] :
         w \in WordTokenizerSamples, d \in BOOLEAN, t \in BOOLEAN, f \in FilterSamples }

\* the chars of the texts given to a Tokenizer
TokenizerChars == {"a", "A", " ", ","}

\* longer texts given to a Tokenizer
LongTextSamples == { <<"a", ",", " ", ",", "b">>, <<"A", "a", "A", ",", "a">> }

\* every cutr variable at rest
CutrIdle ==
    /\ overflow_checks = FALSE /\ complement = FALSE /\ fields = <<>> /\ uniq = FALSE
    /\ sorted = FALSE /\ zero = FALSE /\ delim = <<>> /\ trim = FALSE /\ input = <<>>
    /\ fargs = <<>> /\ lines = <<>> /\ file_header = <<>> /\ n = 0 /\ field_enums = <<>>
    /\ i = 0 /\ field_tokens = <<>> /\ indices = <<>> /\ out = <<>>

InitTokenizer ==
    /\ tokenization_spec \in TokenizationSpecSamples
    /\ input_text \in BoundedSeq(TokenizerChars, MaxText) \cup LongTextSamples
    /\ tokenizer = <<>>
    /\ words = <<>>
    /\ typed_tokens = <<>>
    /\ tokens_out = <<>>
    /\ pc = "build"
    /\ err = ""
    /\ CutrIdle
    /\ ToolsIdle

\* tokenizer_from_spec(&tokenization_spec)
TokenizerFromSpec ==
    /\ pc = "build"
    /\ LET r == tokenizer_from_spec(tokenization_spec)
       IN IF r.panicked
          THEN /\ pc' = "panicked"
               /\ err' = "called Result::unwrap() on an Err value"
               /\ tokenizer' = tokenizer
          ELSE /\ pc' = IF r.val.ok THEN "built" ELSE "failed"
               /\ err' = IF r.val.ok THEN err ELSE r.val.val
               /\ tokenizer' = IF r.val.ok THEN r.val.val ELSE tokenizer
    /\ UNCHANGED <<tokenization_spec, input_text, words, typed_tokens, tokens_out>>
    /\ UNCHANGED cutr_vars
    /\ UNCHANGED tools_vars

\* tokenizer.tokens(&input_text)
Tokens ==
    /\ pc = "built"
    /\ words' = Tokenizer_words(tokenizer, input_text)
    /\ tokens_out' = Tokenizer_tokens(tokenizer, input_text)
    /\ pc' = "returned"
    /\ UNCHANGED <<tokenization_spec, input_text, tokenizer, typed_tokens, err>>
    /\ UNCHANGED cutr_vars
    /\ UNCHANGED tools_vars

NextTokenizer == TokenizerFromSpec \/ Tokens

SpecTokenizer == InitTokenizer /\ [][NextTokenizer]_vars

----------------------------------------------------------------------------
(* SpecRegexBoundary: RegexBoundaryTokenizer::tokens and ::words on one     *)
(* input.                                                                   *)

\* the chars of the inputs: a letter each of one and of two bytes, and boundary chars
\* of one and of four bytes
RegexBoundaryChars == {"a", "U+00E9", " ", "'", "U+1F600"}

\* the excluded_boundary_chars tried
ExcludedSamples == { <<>>, << <<"'">> >>, << <<"U+1F600", "'">> >>, << <<"a", " ">> >> }

InitRegexBoundary ==
    /\ \E x \in ExcludedSamples : tokenizer = RegexBoundaryTokenizer_new(x)
    /\ input_text \in BoundedSeq(RegexBoundaryChars, MaxInput)
    /\ tokenization_spec = <<>>
    /\ words = <<>>
    /\ typed_tokens = <<>>
    /\ tokens_out = <<>>
    /\ pc = "call"
    /\ err = ""
    /\ CutrIdle
    /\ ToolsIdle

\* tokenizer.tokens(&input_text)
RegexBoundaryTokens ==
    /\ pc = "call"
    /\ typed_tokens' = RegexBoundaryTokenizer_tokens(tokenizer, input_text)
    /\ pc' = "tokens"
    /\ UNCHANGED <<tokenization_spec, input_text, tokenizer, words, tokens_out, err>>
    /\ UNCHANGED cutr_vars
    /\ UNCHANGED tools_vars

\* tokenizer.words(&input_text)
RegexBoundaryWords ==
    /\ pc = "tokens"
    /\ words' = RegexBoundaryTokenizer_words(tokenizer, input_text)
    /\ pc' = "words"
    /\ UNCHANGED <<tokenization_spec, input_text, tokenizer, typed_tokens, tokens_out, err>>
    /\ UNCHANGED cutr_vars
    /\ UNCHANGED tools_vars

NextRegexBoundary == RegexBoundaryTokens \/ RegexBoundaryWords

SpecRegexBoundary == InitRegexBoundary /\ [][NextRegexBoundary]_vars

----------------------------------------------------------------------------
(* Properties of Tokenizer::tokens and tokenizer_from_spec, under           *)
(* SpecTokenizer.                                                           *)

TokensReturned == pc = "returned"
TheConfig == tokenizer.config
TheWordTokenizer == tokenizer.word_tokenizer

\* the text the word tokenizer is to see
Lowered == IF TheConfig.downcase_text THEN to_lowercase(input_text) ELSE input_text

\* the tokens after the trim step
Trimmed ==
    [j \in 1..Len(words) |-> IF TheConfig.trimmed_tokens THEN str_trim(words[j]) ELSE words[j]]

\* the filter regex matches the token
Filtered(tok) ==
    TheConfig.filter_tokens_re # <<>> /\ is_match(TheConfig.filter_tokens_re[1], tok)

\* C13: Tokenizer::tokens lowercases the whole text if downcase_text is set, runs the
\* word tokenizer on that text, trims each token if trimmed_tokens is set, and then
\* removes the tokens the filter matches, in this order; SplitStr "," with trim and
\* filter ^$ makes ["a","b"] of "a, ,b".
C13_StepsInOrder ==
    TokensReturned =>
        /\ words = WordTokens_words(TheWordTokenizer, Lowered)
        /\ tokens_out = SelectSeq(Trimmed, LAMBDA tok : ~Filtered(tok))
        /\ ( /\ TheWordTokenizer = SplitStrTokenizer_new(<< <<",">> >>)
             /\ TheConfig.trimmed_tokens
             /\ TheConfig.filter_tokens_re = << <<"^", "$">> >>
             /\ input_text = <<"a", ",", " ", ",", "b">> )
           => tokens_out = << <<"a">>, <<"b">> >>

C13_Witness ==
    /\ TokensReturned
    /\ TheWordTokenizer = SplitStrTokenizer_new(<< <<",">> >>)
    /\ TheConfig.trimmed_tokens
    /\ TheConfig.filter_tokens_re = << <<"^", "$">> >>
    /\ input_text = <<"a", ",", " ", ",", "b">>
    /\ words = << <<"a">>, <<" ">>, <<"b">> >>
    /\ tokens_out = << <<"a">>, <<"b">> >>

\* C14: with a filter regex the tokens returned are exactly the trimmed tokens the
\* regex does not match, in their relative order; with no filter no token is removed,
\* so trimming keeps the number of tokens and leaves an empty token for a
\* whitespace-only one.
C14_FilterRemovesExactlyMatches ==
    TokensReturned =>
        LET kept == PositionsWhere([j \in 1..Len(words) |-> ~Filtered(Trimmed[j])])
        IN /\ Len(tokens_out) = Len(kept)
           /\ \A k \in 1..Len(kept) : tokens_out[k] = Trimmed[kept[k]]
           /\ \A k \in 1..Len(tokens_out) : ~Filtered(tokens_out[k])
           /\ TheConfig.filter_tokens_re = <<>> =>
                  /\ Len(tokens_out) = Len(words)
                  /\ \A j \in 1..Len(words) :
                         (TheConfig.trimmed_tokens /\ \A x \in 1..Len(words[j]) :
                                                          is_whitespace(words[j][x]))
                             => tokens_out[j] = <<>>

C14_Witness ==
    /\ TokensReturned
    /\ TheConfig.filter_tokens_re = << <<"a">> >>
    /\ TheConfig.trimmed_tokens
    /\ Len(tokens_out) >= 2
    /\ Len(tokens_out) < Len(words)
    /\ \E j \in 1..Len(words) : words[j] # <<>> /\ str_trim(words[j]) = <<>>

\* C15: given a filter pattern that does not compile, tokenizer_from_spec returns
\* Err(InvalidTokenizerError): it builds no Tokenizer and does not panic.
C15_BadFilterIsErr ==
    ( /\ pc # "build"
      /\ tokenization_spec.filter_tokens_re # <<>>
      /\ ~Regex_new_ok(tokenization_spec.filter_tokens_re[1]) )
        => pc = "failed" /\ err = "InvalidTokenizerError"

RECURSIVE MatchStarts(_, _, _)
\* where the non-overlapping occurrences of pat start in s, looking from position from on
MatchStarts(s, pat, from) ==
    IF from + Len(pat) - 1 > Len(s) THEN <<>>
    ELSE IF SubSeq(s, from, from + Len(pat) - 1) = pat
         THEN <<from>> \o MatchStarts(s, pat, from + Len(pat))
         ELSE MatchStarts(s, pat, from + 1)

\* C19: words("") is the empty sequence for UnicodeSegment, UnicodeWord, Whitespace and
\* RegexBoundary, and for SplitStr it is one empty token (two with the empty pattern);
\* words returns on every text.
C19_WordsOfEmptyText ==
    TokensReturned =>
        /\ err = ""
        /\ input_text = <<>> =>
               words = IF TheWordTokenizer.type # "SplitStr" THEN <<>>
                       ELSE IF TheWordTokenizer.split_pattern = <<>> THEN << <<>>, <<>> >>
                       ELSE << <<>> >>

C19_Witness ==
    /\ TokensReturned
    /\ input_text = <<>>
    /\ TheWordTokenizer = SplitStrTokenizer_new(<< <<",">> >>)
    /\ words = << <<>> >>

\* C19 as stated: words("") is the empty sequence for every strategy.
C19_WordsOfEmptyTextIsEmpty ==
    (TokensReturned /\ input_text = <<>>) => words = <<>>

\* C20: SplitStr with a non-empty pattern makes m + 1 tokens of a text with m
\* non-overlapping occurrences of the pattern, an empty token where two occurrences are
\* adjacent and where one starts or ends the text, and the tokens joined with the
\* pattern are the text.
C20_SplitStrKeepsEmptyTokens ==
    ( /\ TokensReturned
      /\ TheWordTokenizer.type = "SplitStr"
      /\ TheWordTokenizer.split_pattern # <<>> ) =>
        LET pat == TheWordTokenizer.split_pattern
            at == MatchStarts(Lowered, pat, 1)
            m == Len(at)
        IN /\ Len(words) = m + 1
           /\ join(words, pat) = Lowered
           /\ \A k \in 1..(m - 1) : at[k + 1] = at[k] + Len(pat) => words[k + 1] = <<>>
           /\ (m > 0 /\ at[1] = 1) => words[1] = <<>>
           /\ (m > 0 /\ at[m] + Len(pat) - 1 = Len(Lowered)) => words[m + 1] = <<>>

C20_Witness ==
    /\ TokensReturned
    /\ TheWordTokenizer = SplitStrTokenizer_new(<< <<",">> >>)
    /\ input_text = <<",", ",", "a">>
    /\ words = << <<>>, <<>>, <<"a">> >>

----------------------------------------------------------------------------
(* Properties of RegexBoundaryTokenizer, under SpecRegexBoundary.           *)

TokensCalled == pc \in {"tokens", "words"}

\* C16: the values of the tokens RegexBoundaryTokenizer::tokens returns, concatenated
\* in order, are the input, whatever the excluded boundary chars.
C16_RoundTrip ==
    TokensCalled => Flatten(token_values(typed_tokens)) = input_text

C16_Witness ==
    /\ TokensCalled
    /\ tokenizer.excluded_boundary_chars = <<"'">>
    /\ input_text = <<"U+00E9", "'", "U+1F600", "a">>
    /\ typed_tokens = << Token_T(<<"U+00E9", "'">>), Token_B(<<"U+1F600">>), Token_T(<<"a">>) >>

\* C17: no token of the list is empty, a B token holds only chars boundary_predicate
\* accepts and a T token only chars it rejects, adjacent tokens differ in type, and
\* the empty input gives the empty list.
C17_MaximalAlternatingRuns ==
    TokensCalled =>
        /\ \A j \in 1..Len(typed_tokens) :
               /\ typed_tokens[j].s # <<>>
               /\ \A x \in 1..Len(typed_tokens[j].s) :
                      boundary_predicate(tokenizer, typed_tokens[j].s[x])
                          <=> typed_tokens[j].type = "B"
        /\ \A j \in 1..(Len(typed_tokens) - 1) :
               typed_tokens[j].type # typed_tokens[j + 1].type
        /\ input_text = <<>> => typed_tokens = <<>>

C17_Witness ==
    /\ TokensCalled
    /\ tokenizer.excluded_boundary_chars = <<>>
    /\ input_text = <<" ", "'", "a", "U+00E9">>
    /\ typed_tokens = << Token_B(<<" ", "'">>), Token_T(<<"a", "U+00E9">>) >>

\* the char is excluded from the boundary chars of the tokenizer
Excluded(c) == contains_char(tokenizer.excluded_boundary_chars, c)

\* C18: a char of excluded_boundary_chars is never a boundary: no B token holds one
\* and it lies in one T token with the non-boundary chars next to it; words returns
\* the values of the T tokens of tokens, in order, and nothing else.
C18_ExcludedCharsAndWords ==
    /\ \A c \in RegexBoundaryChars : Excluded(c) => ~boundary_predicate(tokenizer, c)
    /\ TokensCalled =>
           /\ \A j \in 1..Len(typed_tokens) :
                  typed_tokens[j].type = "B" =>
                      \A x \in 1..Len(typed_tokens[j].s) : ~Excluded(typed_tokens[j].s[x])
           /\ Cardinality({j \in 1..Len(typed_tokens) : typed_tokens[j].type = "T"}) =
              Cardinality({j \in 1..Len(input_text) :
                  /\ Excluded(input_text[j]) \/ is_word_char(input_text[j])
                  /\ j = 1 \/ ~(Excluded(input_text[j - 1]) \/ is_word_char(input_text[j - 1]))})
    /\ pc = "words" =>
           LET ts == PositionsWhere([j \in 1..Len(typed_tokens) |-> typed_tokens[j].type = "T"])
           IN words = [k \in 1..Len(ts) |-> typed_tokens[ts[k]].s]

C18_Witness ==
    /\ pc = "words"
    /\ tokenizer.excluded_boundary_chars = <<"'">>
    /\ input_text = <<"a", "'", "a", " ">>
    /\ typed_tokens = << Token_T(<<"a", "'", "a">>), Token_B(<<" ">>) >>
    /\ words = << <<"a", "'", "a">> >>

----------------------------------------------------------------------------
(* Properties of a run of main: errors and output, under Spec.              *)

\* the string is no field spec: it is no number and no form of farg_re, or its regex
\* does not compile
Malformed(s) == ~parse_farg(s, <<>>).ok

\* the run ended on a field spec that did not parse
FieldSpecError == pc = "failed" /\ err # "UnknownArgument"

\* C21: a run in which a field spec fails to parse or to compile writes no line:
\* every field spec is parsed before the first line is printed, and no such error
\* arises once a line is printed.
C21_NoOutputOnFieldSpecError ==
    /\ FieldSpecError => out = <<>>
    /\ out # <<>> => /\ n = Len(fargs)
                     /\ \A j \in 1..Len(fargs) : ~Malformed(fargs[j])
                     /\ pc # "failed"

C21_Witness ==
    /\ FieldSpecError
    /\ Len(lines) = 2
    /\ n = 1
    /\ Malformed(fargs[2])
    /\ out = <<>>

\* C22: whatever the input, no line included, a run whose -f list holds a malformed
\* field spec or a regex that does not compile ends with an error, and no input line
\* is read before it is raised.
C22_FieldSpecErrorBeforeReading ==
    (\E j \in 1..Len(fargs) : Malformed(fargs[j])) =>
        /\ pc # "done"
        /\ pc = "failed" => lines = <<>>

\* the index list of the j-th line
LineIndices(j) ==
    collect_indices(flat_map_indices(field_enums, tokens(lines[j], delim, trim),
                                     overflow_checks).val, uniq, sorted)

----------------------------------------------------------------------------
(* Properties of FieldSpec::indices for OpenRange, under SpecIndices.       *)

\* C23: on k tokens OpenRange(a) resolves to what the range closure gives for the
\* bounds (a, k), which is what ClosedRange(a, k) resolves to; for 1 <= a <= k it is
\* [a-1, ..., k-1], and OpenRange(0) selects every token.
C23_OpenRangeIsRangeToCount ==
    (Called /\ TheSpec.kind = "OpenRange") =>
        LET a == TheSpec.a
            k == TokenCount
            closed == FieldSpec_indices(ClosedRange(a, k), field_tokens, overflow_checks)
        IN /\ pc = "returned"
           /\ indices = indices_closure(a, k, k)
           /\ ~closed.panicked /\ indices = closed.val
           /\ (1 <= a /\ a <= k) => indices = [j \in 1..(k - a + 1) |-> a + j - 2]
           /\ a = 0 => indices = [j \in 1..k |-> j - 1]

C23_Witness ==
    /\ pc = "returned"
    /\ TheSpec = OpenRange(2)
    /\ TokenCount = 3
    /\ indices = <<1, 2>>

\* C27: on k tokens every index OpenRange(a) resolves to is at least a-1, and for
\* a > k the list is empty.
C27_OpenRangeNothingBeforeStart ==
    (Called /\ TheSpec.kind = "OpenRange") =>
        /\ pc = "returned"
        /\ \A j \in 1..Len(indices) : indices[j] + 1 >= TheSpec.a
        /\ TheSpec.a > TokenCount => indices = <<>>

----------------------------------------------------------------------------
(* SpecFargs: a run of main on one line, for -f arguments of every shape.   *)

\* how long a -f argument drawn char by char may be
MaxFarg == 3

\* the chars of those -f arguments
FargChars == {"1", "2", "-", "r", "R", ",", "/", ":", "a", "("}

\* longer -f argument lists: a sign, slashed regexes with commas, several arguments
FargListSamples ==
    { << <<"+", "1">> >>,
      << <<"R", "/", "a", ",", "b", "/">> >>,
      << <<"r", "/", "a", ",", "b", "/">> >>,
      << <<"2", ",", "1">>, <<"R", "/", "a", ",", "/">>, <<"1", "-", "2", ",", "-", "1">> >>,
      << <<"1", ",", "R", "/", "a", "/">>, <<"r", "/", "a", "/", ",", "r", "/", "b", "/">> >> }

InitFargs ==
    /\ overflow_checks \in BOOLEAN
    /\ fields \in {<<a>> : a \in BoundedSeq(FargChars, MaxFarg) \ {<<>>}} \cup FargListSamples
    /\ uniq = FALSE /\ sorted = FALSE /\ zero = FALSE /\ complement = FALSE
    /\ delim = <<>> /\ trim = FALSE
    /\ input = << <<"a", ",", "b", " ", "a", "b">> >>
    /\ pc = "args"
    /\ fargs = <<>>
    /\ lines = <<>>
    /\ file_header = <<>>
    /\ n = 0
    /\ field_enums = <<>>
    /\ i = 0
    /\ field_tokens = <<>>
    /\ indices = <<>>
    /\ out = <<>>
    /\ err = ""
    /\ TokenizeIdle
    /\ ToolsIdle

SpecFargs == InitFargs /\ [][Next]_vars

----------------------------------------------------------------------------
(* Properties of the parsing of the -f arguments, under SpecFargs.          *)

\* s is d1...dk-e1...em with digits on both sides (to = TRUE) or d1...dk- (to = FALSE)
IsRange(s, to) ==
    \E d \in 1..Len(s) :
        /\ s[d] = "-"
        /\ all_digits(SubSeq(s, 1, d - 1))
        /\ IF to THEN all_digits(SubSeq(s, d + 1, Len(s))) ELSE d = Len(s)

\* where the one dash of a range is
DashOf(s) == CHOOSE d \in 1..Len(s) : s[d] = "-"

\* the one form the field-spec string has, and what it gives on the header; any other
\* string, and a regex that does not compile, gives an error
FormOf(s, header) ==
    IF all_digits(s) THEN Ok(<<Index(decimal(s, 0))>>)
    ELSE IF IsRange(s, TRUE)
    THEN Ok(<<ClosedRange(decimal(SubSeq(s, 1, DashOf(s) - 1), 0),
                          decimal(SubSeq(s, DashOf(s) + 1, Len(s)), 0))>>)
    ELSE IF IsRange(s, FALSE) THEN Ok(<<OpenRange(decimal(SubSeq(s, 1, Len(s) - 1), 0))>>)
    ELSE IF Len(s) >= 2 /\ s[1] = "-" /\ all_digits(Tail(s)) THEN Ok(<<Last(decimal(Tail(s), 0))>>)
    ELSE IF Len(s) >= 2 /\ s[1] = "r" /\ Regex_new_ok(Tail(s))
    THEN Ok(header_indices(Tail(s), header))
    ELSE IF Len(s) >= 2 /\ s[1] = "R" /\ Regex_new_ok(Tail(s))
    THEN Ok(<<RegularExpression(Tail(s))>>)
    ELSE Err("rejected")

\* the parse loop is over, or was ended by an error
PastSplit == pc \in {"parse", "process", "done", "panicked"} \/ FieldSpecError

\* C28: each field-spec string has exactly one form: N gives Index(N), N-M
\* ClosedRange(N, M), N- OpenRange(N), -N Last(N), r and a non-empty pattern a header
\* regex, R and a non-empty pattern a data regex; every other string ends the run
\* with an error and adds no field spec.
C28_ExactlyOneForm ==
    PastSplit =>
        /\ \A j \in 1..n : FormOf(fargs[j], file_header).ok
        /\ field_enums = Flatten([j \in 1..n |-> FormOf(fargs[j], file_header).val])
        /\ FieldSpecError => ~FormOf(fargs[n + 1], file_header).ok
        /\ pc \in {"process", "done", "panicked"} => n = Len(fargs)

\* the -f argument as a whole is r/PAT/ or R/PAT/
Slashed(fstr) ==
    Len(fstr) >= 4 /\ fstr[1] \in {"r", "R"} /\ fstr[2] = "/" /\ fstr[Len(fstr)] = "/"

\* PAT of r/PAT/
PatternOf(fstr) == SubSeq(fstr, 3, Len(fstr) - 1)

\* how many field-spec strings the -f argument makes
Pieces(fstr) ==
    IF Slashed(fstr) THEN 1 ELSE 1 + Cardinality({j \in 1..Len(fstr) : fstr[j] = ","})

RECURSIVE PiecesBefore(_)
\* how many field-spec strings the first k -f arguments make
PiecesBefore(k) == IF k = 0 THEN 0 ELSE PiecesBefore(k - 1) + Pieces(fields[k])

\* C29: a -f argument that as a whole is r/PAT/ or R/PAT/ makes one regex field spec
\* of pattern PAT, commas kept; every other -f argument is split at each comma, each
\* piece parsed on its own; the specs follow the order of the arguments and of the
\* pieces in an argument.
C29_SlashedRegexKeepsCommas ==
    PastSplit =>
        /\ Len(fargs) = PiecesBefore(Len(fields))
        /\ \A k \in 1..Len(fields) :
               LET from == PiecesBefore(k - 1)
               IN IF Slashed(fields[k])
                  THEN /\ fargs[from + 1] = <<fields[k][1]>> \o PatternOf(fields[k])
                       /\ parse_farg(fargs[from + 1], file_header) =
                              IF ~Regex_new_ok(PatternOf(fields[k])) THEN Err("regex::Error")
                              ELSE IF fields[k][1] = "R"
                              THEN Ok(<<RegularExpression(PatternOf(fields[k]))>>)
                              ELSE Ok(header_indices(PatternOf(fields[k]), file_header))
                  ELSE /\ \A j \in 1..Pieces(fields[k]) : "," \notin
                              {fargs[from + j][x] : x \in 1..Len(fargs[from + j])}
                       /\ join([j \in 1..Pieces(fields[k]) |-> fargs[from + j]], <<",">>)
                              = fields[k]
        /\ field_enums = Flatten([j \in 1..n |-> parse_farg(fargs[j], file_header).val])

C29_Witness ==
    /\ pc = "done"
    /\ fields = << <<"2", ",", "1">>, <<"R", "/", "a", ",", "/">>,
                   <<"1", "-", "2", ",", "-", "1">> >>
    /\ fargs = << <<"2">>, <<"1">>, <<"R", "a", ",">>, <<"1", "-", "2">>, <<"-", "1">> >>
    /\ field_enums = <<Index(2), Index(1), RegularExpression(<<"a", ",">>),
                       ClosedRange(1, 2), Last(1)>>

----------------------------------------------------------------------------
(* nom_word_boundary: WordBoundaryTokenizer.  Its boundary_predicate and    *)
(* its tokens are, line for line, those of RegexBoundaryTokenizer.          *)

\* WordBoundaryTokenizer::new
WordBoundaryTokenizer_new(excluded_boundary_chars) ==
    [excluded_boundary_chars |-> excluded_boundary_chars]

\* WordBoundaryTokenizer::tokens: the scanner, its list wrapped in Ok
WordBoundaryTokenizer_tokens(self, s) == Returned(Ok(RegexBoundaryTokenizer_tokens(self, s)))

RECURSIVE prefix_len(_, _, _)
\* how many leading chars of s boundary_predicate maps to want
prefix_len(self, s, want) ==
    IF s # <<>> /\ boundary_predicate(self, Head(s)) = want
    THEN 1 + prefix_len(self, Tail(s), want)
    ELSE 0

\* nom take_while(boundary_predicate): the longest prefix of boundary chars, and the rest
take_while(self, s) ==
    LET k == prefix_len(self, s, TRUE)
    IN [rest |-> SubSeq(s, k + 1, Len(s)), taken |-> SubSeq(s, 1, k)]

\* nom take_till(boundary_predicate): the longest prefix free of boundary chars, and the rest
take_till(self, s) ==
    LET k == prefix_len(self, s, FALSE)
    IN [rest |-> SubSeq(s, k + 1, Len(s)), taken |-> SubSeq(s, 1, k)]

\* pair(take_while, take_till)
nom_pair(self, s) ==
    LET b == take_while(self, s)
        t == take_till(self, b.rest)
    IN [rest |-> t.rest, b |-> b.taken, t |-> t.taken]

RECURSIVE nom_many0(_, _)
\* many0(map(verify(pair, not both empty), (Token::B, Token::T))): the pairs parsed
\* until verify fails, and the unparsed input
nom_many0(self, s) ==
    LET p == nom_pair(self, s)
    IN IF p.b = <<>> /\ p.t = <<>> THEN [rest |-> s, value |-> <<>>]
       ELSE LET more == nom_many0(self, p.rest)
            IN [rest |-> more.rest,
                value |-> << <<Token_B(p.b), Token_T(p.t)>> >> \o more.value]

\* nom_tokens pushing the empty tokens of the pairs as well
WordBoundaryTokenizer_nom_tokens_keeping_empty(self, s) ==
    LET parse == nom_many0(self, s)
        toks == Flatten(parse.value)
    IN IF parse.rest # <<>> \/ Flatten(token_values(toks)) # s THEN Panicked
       ELSE Returned(Ok(toks))

\* WordBoundaryTokenizer::nom_tokens: the non-empty tokens of the pairs; the two
\* assertions panic
WordBoundaryTokenizer_nom_tokens(self, s) ==
    LET parse == nom_many0(self, s)
        toks == SelectSeq(Flatten(parse.value), LAMBDA tok : tok.s # <<>>)
    IN IF parse.rest # <<>> \/ Flatten(token_values(toks)) # s THEN Panicked
       ELSE Returned(Ok(toks))

----------------------------------------------------------------------------
(* SpecWordBoundary: tokens and nom_tokens of one WordBoundaryTokenizer on  *)
(* one input.                                                               *)

InitWordBoundary ==
    /\ \E x \in ExcludedSamples : tokenizer = WordBoundaryTokenizer_new(unwrap_or_empty(x))
    /\ input_text \in BoundedSeq(RegexBoundaryChars, MaxInput)
    /\ tokenization_spec = <<>>
    /\ words = <<>>
    /\ typed_tokens = <<>>
    /\ tokens_out = <<>>
    /\ pc = "call"
    /\ err = ""
    /\ CutrIdle
    /\ ToolsIdle

\* tokenizer.tokens(&input_text)
WordBoundaryTokens ==
    /\ pc = "call"
    /\ LET r == WordBoundaryTokenizer_tokens(tokenizer, input_text)
       IN /\ pc' = IF r.panicked THEN "panicked" ELSE IF r.val.ok THEN "tokens" ELSE "failed"
          /\ typed_tokens' = IF ~r.panicked /\ r.val.ok THEN r.val.val ELSE typed_tokens
    /\ UNCHANGED <<tokenization_spec, input_text, tokenizer, words, tokens_out, err>>
    /\ UNCHANGED <<nom_typed_tokens, b64_src, b64_n, b64_dst, b64_out, b64_ret, crc_msg,
                   crc_algo_ret, crc_ret>>
    /\ UNCHANGED cutr_vars

\* tokenizer.nom_tokens(&input_text)
WordBoundaryNomTokens ==
    /\ pc = "tokens"
    /\ LET r == WordBoundaryTokenizer_nom_tokens(tokenizer, input_text)
       IN /\ pc' = IF r.panicked THEN "panicked"
                   ELSE IF r.val.ok THEN "nom_tokens" ELSE "failed"
          /\ nom_typed_tokens' = IF ~r.panicked /\ r.val.ok THEN r.val.val
                                 ELSE nom_typed_tokens
    /\ UNCHANGED tokenize_vars
    /\ UNCHANGED <<b64_src, b64_n, b64_dst, b64_out, b64_ret, crc_msg, crc_algo_ret, crc_ret>>
    /\ UNCHANGED <<cutr_vars, err>>

NextWordBoundary == WordBoundaryTokens \/ WordBoundaryNomTokens

SpecWordBoundary == InitWordBoundary /\ [][NextWordBoundary]_vars

\* C24: for every input and every set of excluded chars, tokens and nom_tokens both
\* return, and return the same list of typed tokens: same types, same texts, same
\* order.
C24_ScannerEqualsNomParser ==
    /\ pc \notin {"panicked", "failed"}
    /\ pc = "nom_tokens" =>
           /\ Len(nom_typed_tokens) = Len(typed_tokens)
           /\ \A j \in 1..Len(typed_tokens) :
                  /\ nom_typed_tokens[j].type = typed_tokens[j].type
                  /\ nom_typed_tokens[j].s = typed_tokens[j].s

C24_Witness ==
    /\ pc = "nom_tokens"
    /\ tokenizer.excluded_boundary_chars = <<"'">>
    /\ input_text = <<" ", "a", "'", "U+1F600">>
    /\ nom_typed_tokens = << Token_B(<<" ">>), Token_T(<<"a", "'">>), Token_B(<<"U+1F600">>) >>

----------------------------------------------------------------------------
(* b64: the codec of one group of 3 bytes.  A u8 is a number of 0..255; an  *)
(* array is a sequence, its Rust index k at position k + 1.                 *)

RECURSIVE BitAnd(_, _)
\* a & b
BitAnd(a, b) ==
    IF a = 0 \/ b = 0 THEN 0
    ELSE (a % 2) * (b % 2) + 2 * BitAnd(a \div 2, b \div 2)

RECURSIVE BitOr(_, _)
\* a | b
BitOr(a, b) ==
    IF a = 0 THEN b
    ELSE IF b = 0 THEN a
    ELSE Max(a % 2, b % 2) + 2 * BitOr(a \div 2, b \div 2)

\* x << k on a u8: the bits shifted out are lost
shl_u8(x, k) == (x * 2^k) % 256

\* x >> k
shr(x, k) == x \div 2^k

B64TABLE ==
    << 65,  66,  67,  68,  69,  70,  71,  72,  73,  74,  75,  76,  77,
       78,  79,  80,  81,  82,  83,  84,  85,  86,  87,  88,  89,  90,
       97,  98,  99, 100, 101, 102, 103, 104, 105, 106, 107, 108, 109,
      110, 111, 112, 113, 114, 115, 116, 117, 118, 119, 120, 121, 122,
       48,  49,  50,  51,  52,  53,  54,  55,  56,  57,
       43,
       47 >>

R_B64TABLE ==
    << 62,
        0,  0,  0,
       63,
       52, 53, 54, 55, 56, 57, 58, 59, 60, 61,
        0,  0,  0,  0,  0,  0,  0,
        0,  1,  2,  3,  4,  5,  6,  7,  8,  9, 10, 11, 12,
       13, 14, 15, 16, 17, 18, 19, 20, 21, 22, 23, 24, 25,
        0,  0,  0,  0,  0,  0,
       26, 27, 28, 29, 30, 31, 32, 33, 34, 35, 36, 37, 38,
       39, 40, 41, 42, 43, 44, 45, 46, 47, 48, 49, 50, 51 >>

TABLE_OFFSET == 43

PAD_CHAR == 61

\* b64_encode: the dst it leaves, from the dst it was given
b64_encode(src, dst, count) ==
    LET d0 == B64TABLE[shr(src[1], 2) + 1]
    IN IF count = 1 THEN
           << d0,
              B64TABLE[BitAnd(shl_u8(src[1], 4), 48) + 1],
              PAD_CHAR,
              PAD_CHAR >>
       ELSE IF count = 2 THEN
           << d0,
              B64TABLE[BitOr(BitAnd(shl_u8(src[1], 4), 48), shr(src[2], 4)) + 1],
              B64TABLE[BitAnd(shl_u8(src[2], 2), 60) + 1],
              PAD_CHAR >>
       ELSE
           << d0,
              B64TABLE[BitOr(BitAnd(shl_u8(src[1], 4), 48), shr(src[2], 4)) + 1],
              B64TABLE[BitOr(BitAnd(shl_u8(src[2], 2), 60), shr(src[3], 6)) + 1],
              B64TABLE[BitAnd(src[3], 63) + 1] >>

\* R_B64TABLE[usize::from(x - TABLE_OFFSET)] is in bounds: otherwise the subtraction
\* or the index panics, or the wrapped index is past the table and panics
r_index_ok(x) == x >= TABLE_OFFSET /\ x - TABLE_OFFSET < Len(R_B64TABLE)

\* R_B64TABLE[usize::from(x - TABLE_OFFSET)]
r_b64(x) == R_B64TABLE[x - TABLE_OFFSET + 1]

\* b64_decode losing the two low bits of the first byte
b64_decode_without_b_bits(src, dst) ==
    IF \E k \in 1..4 : src[k] # PAD_CHAR /\ ~r_index_ok(src[k]) THEN Panicked
    ELSE Returned([count |-> 3, dst |-> <<shl_u8(r_b64(src[1]), 2), dst[2], dst[3]>>])

\* b64_decode: the count returned and the dst it leaves, from the dst it was given
b64_decode(src, dst) ==
    IF ~r_index_ok(src[1]) \/ ~r_index_ok(src[2]) THEN Panicked
    ELSE
    LET a == r_b64(src[1])
        b == r_b64(src[2])
        dst0 == BitOr(shl_u8(a, 2), BitAnd(shr(b, 4), 3))
    IN IF src[4] = PAD_CHAR THEN
           IF src[3] = PAD_CHAR THEN Returned([count |-> 1, dst |-> <<dst0, dst[2], dst[3]>>])
           ELSE IF ~r_index_ok(src[3]) THEN Panicked
           ELSE LET c == r_b64(src[3])
                IN Returned([count |-> 2,
                             dst |-> <<dst0, BitOr(shl_u8(b, 4), BitAnd(shr(c, 2), 15)),
                                       dst[3]>>])
       ELSE IF ~r_index_ok(src[3]) \/ ~r_index_ok(src[4]) THEN Panicked
       ELSE LET c == r_b64(src[3])
                d == r_b64(src[4])
            IN Returned([count |-> 3,
                         dst |-> <<dst0, BitOr(shl_u8(b, 4), BitAnd(shr(c, 2), 15)),
                                   BitOr(shl_u8(c, 6), d)>>])

----------------------------------------------------------------------------
(* SpecB64: one group encoded, and the 4 bytes written decoded again.       *)

\* bytes with every bit set and clear, alone and in runs
ByteSamples == {0, 1, 2, 3, 15, 16, 63, 64, 85, 128, 170, 252, 255}

\* the arrays start zeroed in main and are reused from group to group
InitB64 ==
    /\ b64_src \in {<<x, y, z>> : x \in ByteSamples, y \in ByteSamples, z \in ByteSamples}
    /\ b64_n \in 1..3
    /\ b64_dst \in {<<0, 0, 0, 0>>, <<PAD_CHAR, PAD_CHAR, PAD_CHAR, PAD_CHAR>>}
    /\ b64_out \in {<<0, 0, 0>>, <<255, 255, 255>>}
    /\ b64_ret = 0
    /\ nom_typed_tokens = <<>>
    /\ crc_msg = <<>> /\ crc_algo_ret = <<>> /\ crc_ret = <<>>
    /\ pc = "encode"
    /\ err = ""
    /\ CutrIdle
    /\ TokenizeIdle

\* b64_encode(src, &mut dst, n)
B64Encode ==
    /\ pc = "encode"
    /\ b64_dst' = b64_encode(b64_src, b64_dst, b64_n)
    /\ pc' = "decode"
    /\ UNCHANGED <<nom_typed_tokens, b64_src, b64_n, b64_out, b64_ret, crc_msg, crc_algo_ret,
                   crc_ret>>
    /\ UNCHANGED <<cutr_vars, tokenize_vars, err>>

\* let nbytes = b64_decode(dst, &mut src), into a second array
B64Decode ==
    /\ pc = "decode"
    /\ LET r == b64_decode(b64_dst, b64_out)
       IN /\ pc' = IF r.panicked THEN "panicked" ELSE "decoded"
          /\ b64_ret' = IF r.panicked THEN b64_ret ELSE r.val.count
          /\ b64_out' = IF r.panicked THEN b64_out ELSE r.val.dst
    /\ UNCHANGED <<nom_typed_tokens, b64_src, b64_n, b64_dst, crc_msg, crc_algo_ret, crc_ret>>
    /\ UNCHANGED <<cutr_vars, tokenize_vars, err>>

NextB64 == B64Encode \/ B64Decode

SpecB64 == InitB64 /\ [][NextB64]_vars

\* the 64 bytes of the Base64 alphabet: A-Z, a-z, 0-9, + and /
Base64Alphabet == (65..90) \cup (97..122) \cup (48..57) \cup {43, 47}

\* C25: for n in 1..3 and any 3 source bytes, decoding the 4 bytes written by
\* b64_encode(src, dst, n) does not panic, returns n and reproduces the first n
\* source bytes; the last 3-n bytes written are '=' and the others are bytes of the
\* Base64 alphabet.
C25_EncodeDecodeRoundTrip ==
    /\ pc # "panicked"
    /\ pc \in {"decode", "decoded"} =>
           \A k \in 1..4 : IF k > b64_n + 1 THEN b64_dst[k] = 61
                           ELSE b64_dst[k] \in Base64Alphabet
    /\ pc = "decoded" =>
           /\ b64_ret = b64_n
           /\ \A k \in 1..b64_n : b64_out[k] = b64_src[k]

C25_Witness ==
    /\ pc = "decoded"
    /\ b64_src = <<255, 170, 85>>
    /\ b64_n = 2
    /\ b64_dst = <<47, 54, 111, 61>>
    /\ b64_out = <<255, 170, 0>>
    /\ b64_ret = 2

----------------------------------------------------------------------------
(* crc16: CRC-16/UMTS bit by bit and by table.  A u16 is a number of        *)
(* 0..65535; a u32 is the pair of its high and low 16 bits.                 *)

RECURSIVE BitXor(_, _)
\* a ^ b
BitXor(a, b) ==
    IF a = 0 THEN b
    ELSE IF b = 0 THEN a
    ELSE ((a + b) % 2) + 2 * BitXor(a \div 2, b \div 2)

\* x << k on a u16: the bits shifted out are lost
shl_u16(x, k) == (x * 2^k) % 65536

\* 0x80000000
MSB == [hi |-> 32768, lo |-> 0]

\* 0x80050000
CRCPOLY == [hi |-> 32773, lo |-> 0]

\* x << 1 on a u32: the top bit is lost
u32_shl1(x) == [hi |-> shl_u16(x.hi, 1) + shr(x.lo, 15), lo |-> shl_u16(x.lo, 1)]

\* x ^ y on u32
u32_xor(x, y) == [hi |-> BitXor(x.hi, y.hi), lo |-> BitXor(x.lo, y.lo)]

\* x & y on u32
u32_and(x, y) == [hi |-> BitAnd(x.hi, y.hi), lo |-> BitAnd(x.lo, y.lo)]

RECURSIVE crc16_byte_loop(_, _)
\* the while loop of _crc16_byte, from counter k
crc16_byte_loop(value, k) ==
    IF k < 8
    THEN crc16_byte_loop(BitXor(shl_u16(value, 1), BitAnd(shr(value, 15), 1) * CRCPOLY.hi),
                         k + 1)
    ELSE value

\* _crc16_byte
crc16_byte(byte) == crc16_byte_loop(shl_u16(byte, 8), 0)

\* crc16_table(): entry k of the array at k
crc16_table == [k \in 0..255 |-> crc16_byte(k)]

RECURSIVE crc16_algo_bits(_, _)
\* for _ in 0..8 of crc16_algo, from counter k
crc16_algo_bits(crc, k) ==
    IF k < 8
    THEN IF u32_and(crc, MSB) = [hi |-> 0, lo |-> 0]
         THEN crc16_algo_bits(u32_shl1(crc), k + 1)
         ELSE crc16_algo_bits(u32_xor(u32_shl1(crc), CRCPOLY), k + 1)
    ELSE crc

\* x is a u32 (its evaluation is not left pending from one iteration to the next)
is_u32(x) == x.hi \in 0..65535 /\ x.lo \in 0..65535

RECURSIVE crc16_algo_bytes(_, _)
\* for byte in ... of crc16_algo, over the bytes left
crc16_algo_bytes(crc, bytes) ==
    IF bytes = <<>> \/ ~is_u32(crc) THEN crc
    ELSE crc16_algo_bytes(
             crc16_algo_bits(u32_xor(crc, [hi |-> 0, lo |-> shl_u16(Head(bytes), 8)]), 0),
             Tail(bytes))

\* crc16_algo of a message of two bytes or more
crc16_algo_long(message) ==
    crc16_algo_bytes([hi |-> BitOr(shl_u16(message[1], 8), message[2]), lo |-> 0],
                     SubSeq(message, 3, Len(message)) \o <<0, 0>>).hi

\* crc16_algo
crc16_algo(message) ==
    IF message = <<>> THEN Panicked
    ELSE IF Len(message) = 1 THEN Returned(crc16_algo_long(<<0, message[1]>>))
    ELSE Returned(crc16_algo_long(message))

RECURSIVE crc16_loop_dropping_low_byte(_, _)
\* the loop of crc16 without the low byte of crc shifted up
crc16_loop_dropping_low_byte(crc, bytes) ==
    IF bytes = <<>> THEN crc
    ELSE LET x == BitXor(crc, shl_u16(Head(bytes), 8))
         IN crc16_loop_dropping_low_byte(crc16_table[shr(x, 8)], Tail(bytes))

RECURSIVE crc16_loop(_, _)
\* for byte in msg.iter() of crc16, over the bytes left
crc16_loop(crc, bytes) ==
    IF bytes = <<>> THEN crc
    ELSE LET x == BitXor(crc, shl_u16(Head(bytes), 8))
         IN crc16_loop(BitXor(shl_u16(x, 8), crc16_table[shr(x, 8)]), Tail(bytes))

\* crc16
crc16(message) ==
    IF message = <<>> THEN Panicked
    ELSE Returned(crc16_loop(0, message))

----------------------------------------------------------------------------
(* SpecCrc16: both functions called on one message.                         *)

MaxMsg == 3

\* b"123456789" and b"dave" of the tests
MsgSamples ==
    { <<49, 50, 51, 52, 53, 54, 55, 56, 57>>, <<100, 97, 118, 101>> }

InitCrc16 ==
    /\ crc_msg \in {<<b>> : b \in 0..255} \cup BoundedSeq(ByteSamples, MaxMsg) \cup MsgSamples
    /\ crc_algo_ret = <<>>
    /\ crc_ret = <<>>
    /\ nom_typed_tokens = <<>>
    /\ b64_src = <<>> /\ b64_n = 0 /\ b64_dst = <<>> /\ b64_out = <<>> /\ b64_ret = 0
    /\ pc = "algo"
    /\ err = ""
    /\ CutrIdle
    /\ TokenizeIdle

\* crc16_algo(&msg), a panic caught as by #[should_panic]
Crc16Algo ==
    /\ pc = "algo"
    /\ crc_algo_ret' = <<crc16_algo(crc_msg)>>
    /\ pc' = "table"
    /\ UNCHANGED <<nom_typed_tokens, b64_src, b64_n, b64_dst, b64_out, b64_ret, crc_msg,
                   crc_ret>>
    /\ UNCHANGED <<cutr_vars, tokenize_vars, err>>

\* crc16(&msg), a panic caught as by #[should_panic]
Crc16 ==
    /\ pc = "table"
    /\ crc_ret' = <<crc16(crc_msg)>>
    /\ pc' = "done"
    /\ UNCHANGED <<nom_typed_tokens, b64_src, b64_n, b64_dst, b64_out, b64_ret, crc_msg,
                   crc_algo_ret>>
    /\ UNCHANGED <<cutr_vars, tokenize_vars, err>>

NextCrc16 == Crc16Algo \/ Crc16

SpecCrc16 == InitCrc16 /\ [][NextCrc16]_vars

\* C26: on a non-empty message crc16 and crc16_algo both return, and return the same
\* 16-bit value; on the one-byte message [i] that value is crc16_table()[i]; on the
\* empty message both panic.
C26_TableEqualsBitwise ==
    pc = "done" =>
        IF crc_msg = <<>> THEN crc_algo_ret[1].panicked /\ crc_ret[1].panicked
        ELSE /\ ~crc_algo_ret[1].panicked
             /\ ~crc_ret[1].panicked
             /\ crc_ret[1].val = crc_algo_ret[1].val
             /\ crc_ret[1].val \in 0..65535
             /\ Len(crc_msg) = 1 => crc16_table[crc_msg[1]] = crc_ret[1].val

C26_Witness ==
    /\ pc = "done"
    /\ crc_msg = <<49, 50, 51, 52, 53, 54, 55, 56, 57>>
    /\ crc_ret = <<Returned(65256)>>
    /\ crc_algo_ret = <<Returned(65256)>>

====
